---- MODULE Spec2Model ----
(***************************************************************************)
(* A model of the request pipeline of the dito reverse proxy:              *)
(*   - the response writer stack of one request: the client-facing         *)
(*     http.ResponseWriter, writer.ResponseWriter around it, and the       *)
(*     handlers' responseLimitInterceptor around that;                     *)
(*   - the configuration store: the global atomic value, the Dito handle,  *)
(*     the reload watcher and the requests that read them;                 *)
(*   - the transport cache under concurrent GetTransport calls;            *)
(*   - writer.ResponseWriter.WriteHeader under concurrent callers;         *)
(*   - writer.LimitedBuffer, alone and under concurrent callers;           *)
(*   - the request and response rewriting of the reverse proxy, and the    *)
(*     response body limits from the configuration file to a request.      *)
(* Byte strings are TLA+ strings: Len is the byte length, \o appends.      *)
(***************************************************************************)
EXTENDS Integers, Sequences, FiniteSets, TLC

VARIABLES
    \* ---- one request's writer stack (handlers.handleLocationMatch)
    phase,      \* "new" | "open" | "done": before / during / after the handler
    rli,        \* the responseLimitInterceptor's fields
    sink,       \* the writer.ResponseWriter's fields
    hdr,        \* the header map shared by all three writers (w.Header())
    tgt,        \* what the client-facing http.ResponseWriter has received
    calls,      \* number of calls the handler has made on the interceptor
    seen,       \* the kinds of call made on the interceptor so far
    accepted,   \* the bytes of the Write calls that returned success
    lastRet,    \* (n, err) of the latest Write call on the interceptor
    rejected,   \* the limit was exceeded before the interceptor wrote headers
    afterLimit, \* calls made on the interceptor after the limit was exceeded
    \* ---- the configuration store (config, app.Dito, cmd/main.go)
    currentConfig, \* config.currentConfig, the global atomic.Value
    ditoConfig,    \* dito.Config
    file,          \* the configuration file: content, validity, modification time
    watch,         \* the locals of config.WatchConfig and its position
    req,           \* per request: its position and the configuration it read
    \* ---- the transport cache (transport.TransportCache)
    transports,    \* TransportCache.transports: key -> transport instance
    nextTransport, \* transport instances allocated so far
    tc,            \* per caller of GetTransport: its position and locals
    cleared,       \* a key was deleted by InvalidateTransport or Clear
    \* ---- concurrent WriteHeader calls on one writer.ResponseWriter
    wh,            \* per goroutine: its position in WriteHeader and its argument
    onceBusy,      \* writeHeaderOnce's function is running
    firstOffers,   \* the status codes offered before any WriteHeader returned
    returned,      \* WriteHeader calls that have returned
    declared,      \* the Content-Length set before the first WriteHeader
    \* ---- one response written call by call, on a capped or an uncapped route
    firstCall,     \* the first of WriteHeader, Write and Flush the handler called
    firstStatus,   \* the status code of the first WriteHeader call the handler made, 0 before it
    \* ---- the middleware chain of one request (handlers.applyMiddlewares)
    mw,            \* the plugins, the handler built from them, the handlers invoked
    \* ---- startup (cmd/main.go StartServer, plugin.LoadAndVerifyPlugins)
    boot,          \* the files found, the position in startup, the plugins loaded
    \* ---- a failed round trip on a route with a body cap
    upstreamErr,   \* the error the ErrorHandler was called with, and the response before it
    \* ---- what InvalidateTransport and Clear have removed from the cache
    removed,       \* the <<key, instance>> pairs deleted so far
    began,         \* per caller of GetTransport: the pairs deleted before its call began
    \* ---- the transport cache across a reload
    builtUnder,    \* per cache key: the snapshot the request that stored the entry was dispatched under
    \* ---- writer.LimitedBuffer on its own
    lb,            \* the buffer: bytes.Buffer, maxSize, written, overflow, totalSize
    clone,         \* what lb.Clone() returned
    lbRet,         \* the latest call on lb: its kind, input, result, and lb before it
    rd,            \* per goroutine inside lb.Read: its position and locals
    lbHist,        \* bytes Write accepted, bytes Read returned, the latest String()
    \* ---- request header rewriting (transport.Caronte.AddHeaders)
    ah,            \* the location, the request before, after one and after two rewritings
    \* ---- the response modifier of the reverse proxy
    resp,          \* the headers the upstream sent and the headers after ModifyResponse
    \* ---- the response body limits, from the configuration file to a request
    lim,           \* the settings parsed, the snapshot published or the error, the limit of the request
    \* ---- the Director of the reverse proxy
    fwd,           \* the location, the target path, the request path and the path forwarded
    \* ---- writer.ResponseWriter.Write called by several goroutines
    cw             \* per goroutine inside Write: its position, its slice, the calls it has made

rliVars == <<phase, rli, sink, hdr, tgt, calls, seen, accepted, lastRet, rejected, afterLimit>>
cfgVars == <<currentConfig, ditoConfig, file, watch, req>>
tcVars == <<transports, nextTransport, tc, cleared>>
whVars == <<wh, onceBusy, firstOffers, returned, declared>>
bodyVars == <<firstCall, firstStatus>>
mwVars == <<mw>>
bootVars == <<boot>>
errVars == <<upstreamErr>>
rmVars == <<removed, began>>
reloadVars == <<builtUnder>>
lbVars == <<lb, clone, lbRet, rd, lbHist>>
ahVars == <<ah>>
respVars == <<resp>>
limVars == <<lim>>
dirVars == <<fwd>>
cwVars == <<cw>>
vars == <<rliVars, cfgVars, tcVars, whVars, bodyVars, mwVars, bootVars, errVars, rmVars, reloadVars, lbVars, ahVars, respVars, limVars, dirVars, cwVars>>

-----------------------------------------------------------------------------
(* Bounds of the model *)

MaxLimit == 3         \* the small route caps are 1 and MaxLimit
MaxCalls == 4         \* calls one handler makes on the interceptor
MaxParseInt == 160    \* ParseInt recognises the decimal strings of -1..MaxParseInt
BigLimit == 150       \* a route cap above the size of every gateway error body
MaxEdits == 3         \* times the configuration file is rewritten
MaxBufferCap == 3     \* the largest capacity of a LimitedBuffer
MaxBufferOps == 4     \* calls made on one LimitedBuffer
MaxWriteHeaderCalls == 2
MaxBodyCalls == 3
MaxConcWrites == 2     \* Write calls one goroutine makes on a shared ResponseWriter
MaxErrorCalls == 3  \* WriteHeader calls one goroutine makes

(* Program constants *)

StatusOK == 200
StatusRequestEntityTooLarge == 413
StreamingThreshold == 524288
DefaultMaxBufferSize == 1048576
DefaultMaxResponseBodySize == 104857600

Limits == {1, MaxLimit, BigLimit}
\* the routes of the capped requests: the matched location and the request path
Routes == {
    <<[Path |-> "^/big", DisableResponseBuffering |-> FALSE], "/big">>,
    <<[Path |-> "/health", DisableResponseBuffering |-> FALSE], "/health">>,
    <<[Path |-> "^/a", DisableResponseBuffering |-> TRUE], "/a\"b">> }
Chunks == {"a", "bc", "defgh"}
Statuses == {200, 204}
ContentLengths == {ToString(MaxLimit - 1), ToString(MaxLimit + 1), ToString(BigLimit + 1), "abc"}

-----------------------------------------------------------------------------
(* http.Header: a map from names to values; Get of a missing name is "" *)

NoHeaders == [k \in {} |-> ""]

HGet(h, k) == IF k \in DOMAIN h THEN h[k] ELSE ""

HSet(h, k, v) == [x \in (DOMAIN h) \cup {k} |-> IF x = k THEN v ELSE h[x]]

\* for k, v := range src { dst[k] = v }
HCopyInto(dst, src) ==
    [x \in (DOMAIN dst) \cup (DOMAIN src) |-> IF x \in DOMAIN src THEN src[x] ELSE dst[x]]

\* strconv.ParseInt(s, 10, 64) on the decimal strings the model uses
ParseIntDomain == ((-1)..MaxParseInt) \cup {DefaultMaxResponseBodySize + 1}

ParseInt(s) ==
    IF \E n \in ParseIntDomain : ToString(n) = s
    THEN [ok |-> TRUE, val |-> CHOOSE n \in ParseIntDomain : ToString(n) = s]
    ELSE [ok |-> FALSE, val |-> 0]

\* encoding/json's quoting of a string: the quote and the backslash are escaped
RECURSIVE JSONEscape(_)
JSONEscape(str) ==
    IF str = "" THEN ""
    ELSE LET c == SubSeq(str, 1, 1)
         IN  (IF c = "\"" THEN "\\\"" ELSE IF c = "\\" THEN "\\\\" ELSE c)
                 \o JSONEscape(SubSeq(str, 2, Len(str)))

\* strings.HasPrefix on the content types the model uses
HasPrefix(s, p) ==
    <<s, p>> \in {
        <<"application/json", "application/json">>,
        <<"application/json; charset=utf-8", "application/json">>,
        <<"text/plain; charset=utf-8", "text/">>,
        <<"video/mp4", "video/">> }

\* strings.Contains on the content types the model uses
Contains(s, sub) ==
    <<s, sub>> \in {
        <<"application/json", "json">>,
        <<"application/json; charset=utf-8", "json">>,
        <<"text/plain; charset=utf-8", "text">>,
        <<"application/vnd.api+json", "json">> }

Min(a, b) == IF a < b THEN a ELSE b

-----------------------------------------------------------------------------
(* The world one request's writers act on *)

World == [rli |-> rli, sink |-> sink, hdr |-> hdr, tgt |-> tgt, ret |-> lastRet]

NilRet == [n |-> 0, err |-> "nil"]

(* The client-facing http.ResponseWriter (net/http): the first WriteHeader
   fixes the status and the headers as they are then; a Write or Flush
   before it implies WriteHeader(200). Every WriteHeader call is recorded. *)

NewTarget ==
    [statusWrites |-> <<>>, headers |-> NoHeaders, body |-> "", writes |-> <<>>, flushes |-> 0,
     implicitHeader |-> FALSE]

TargetWriteHeader(w, code) ==
    [w EXCEPT !.tgt.statusWrites = Append(@, code),
              !.tgt.headers = IF w.tgt.statusWrites = <<>> THEN w.hdr ELSE @]

\* WriteHeader(200) made by net/http itself, for a Write or Flush that comes first
TargetImplicitHeader(w) ==
    [TargetWriteHeader(w, StatusOK) EXCEPT !.tgt.implicitHeader = TRUE]

TargetWrite(w, b) ==
    LET w0 == IF w.tgt.statusWrites = <<>> THEN TargetImplicitHeader(w) ELSE w
    IN  [w0 EXCEPT !.tgt.body = @ \o b, !.tgt.writes = Append(@, b)]

TargetFlush(w) ==
    LET w0 == IF w.tgt.statusWrites = <<>> THEN TargetImplicitHeader(w) ELSE w
    IN  [w0 EXCEPT !.tgt.flushes = 1]

-----------------------------------------------------------------------------
(* writer.ResponseWriter *)

NewResponseWriter(buffering, maxBody) ==
    [ StatusCode          |-> 0,
      onceDone            |-> FALSE,
      BytesWritten        |-> 0,
      BodyBuffer          |-> "",
      bufferSize          |-> DefaultMaxBufferSize,
      bufferCap           |-> IF buffering THEN DefaultMaxBufferSize ELSE 0,
      streamingMode       |-> FALSE,
      contentType         |-> "",
      shouldBuffer        |-> buffering,
      maxResponseBodySize |-> maxBody,
      responseLimitHit    |-> FALSE,
      errorWritten        |-> FALSE ]

HeadersWritten(w) == w.sink.StatusCode # 0

analyzeBufferingStrategy(w) ==
    LET cl == HGet(w.hdr, "Content-Length")
        ct == w.sink.contentType
    IN  IF ~w.sink.shouldBuffer THEN w
        ELSE IF cl # "" /\ ParseInt(cl).ok /\ ParseInt(cl).val > StreamingThreshold
        THEN [w EXCEPT !.sink.shouldBuffer = FALSE]
        ELSE IF HGet(w.hdr, "Transfer-Encoding") = "chunked"
        THEN [w EXCEPT !.sink.shouldBuffer = FALSE]
        ELSE [w EXCEPT !.sink.shouldBuffer =
                CASE HasPrefix(ct, "application/json") -> TRUE
                  [] HasPrefix(ct, "application/xml") -> TRUE
                  [] HasPrefix(ct, "text/") -> TRUE
                  [] HasPrefix(ct, "image/") -> FALSE
                  [] HasPrefix(ct, "video/") -> FALSE
                  [] HasPrefix(ct, "audio/") -> FALSE
                  [] HasPrefix(ct, "application/octet-stream") -> FALSE
                  [] HasPrefix(ct, "application/pdf") -> FALSE
                  [] HasPrefix(ct, "application/zip") -> FALSE
                  [] ct = "" -> TRUE
                  [] OTHER -> Contains(ct, "text") \/ Contains(ct, "json") \/ Contains(ct, "xml")]

SinkLimitHeaders(max) ==
    [k \in {"Content-Type", "X-Content-Type-Options", "X-Response-Limit-Exceeded"} |->
        CASE k = "Content-Type" -> "text/plain; charset=utf-8"
          [] k = "X-Content-Type-Options" -> "nosniff"
          [] OTHER -> ToString(max)]

\* the function WriteHeader hands to writeHeaderOnce.Do
writeHeaderBody(w, statusCode) ==
    LET w1 == [w EXCEPT !.sink.StatusCode = statusCode,
                        !.sink.contentType = HGet(w.hdr, "Content-Type")]
        max == w.sink.maxResponseBodySize
        cl == HGet(w.hdr, "Content-Length")
    IN  IF max > 0 /\ cl # "" /\ ParseInt(cl).ok /\ ParseInt(cl).val > max
        THEN LET w2 == [w1 EXCEPT !.sink.responseLimitHit = TRUE,
                                  !.hdr = SinkLimitHeaders(max)]
             IN  [TargetWriteHeader(w2, StatusRequestEntityTooLarge)
                    EXCEPT !.sink.StatusCode = StatusRequestEntityTooLarge]
        ELSE TargetWriteHeader(analyzeBufferingStrategy(w1), statusCode)

\* WriteHeader running its function on every call
SinkWriteHeader_NoOnce(w, statusCode) ==
    [writeHeaderBody(w, statusCode) EXCEPT !.sink.onceDone = TRUE]

\* sync.Once: only the first call runs the function
SinkWriteHeader(w, statusCode) ==
    IF w.sink.onceDone THEN w
    ELSE [writeHeaderBody(w, statusCode) EXCEPT !.sink.onceDone = TRUE]

SinkErrorMsg(max) ==
    "413 Request Entity Too Large: Response body size limit exceeded (limit: "
        \o ToString(max) \o " bytes)"

\* LimitedBuffer.Write taking the whole slice whatever room is left
BodyBufferWrite_NoClamp(s, b) == [s EXCEPT !.BodyBuffer = @ \o b]

\* LimitedBuffer.Write as ResponseWriter.Write uses it: the fitting prefix
BodyBufferWrite(s, b) ==
    [s EXCEPT !.BodyBuffer = @ \o SubSeq(b, 1, Min(Len(b), s.bufferCap - Len(s.BodyBuffer)))]

\* ResponseWriter.Write from the responseLimitHit check on; ret is what the
\* call returns to its caller
writeBody(w0, b) ==
    LET s == w0.sink
        max == s.maxResponseBodySize
        full == [n |-> Len(b), err |-> "nil"]
    IN  IF s.responseLimitHit /\ s.StatusCode = StatusRequestEntityTooLarge
        THEN IF ~s.errorWritten
             THEN [TargetWrite(w0, SinkErrorMsg(max))
                     EXCEPT !.sink.errorWritten = TRUE,
                            !.sink.BytesWritten = @ + Len(SinkErrorMsg(max)),
                            !.ret = [n |-> Len(SinkErrorMsg(max)), err |-> "nil"]]
             ELSE [w0 EXCEPT !.ret = full]
        ELSE IF max > 0 /\ ~s.responseLimitHit /\ s.BytesWritten + Len(b) > max
        THEN LET canWriteN == max - s.BytesWritten
                 w1 == [w0 EXCEPT !.sink.responseLimitHit = TRUE, !.ret = full]
             IN  IF canWriteN > 0
                 THEN [TargetWrite(w1, SubSeq(b, 1, canWriteN))
                         EXCEPT !.sink.BytesWritten = @ + canWriteN]
                 ELSE w1
        ELSE IF s.responseLimitHit
        THEN [w0 EXCEPT !.ret = full]
        ELSE LET w1 == [TargetWrite(w0, b) EXCEPT !.sink.BytesWritten = @ + Len(b),
                                                  !.ret = full]
             IN  IF s.shouldBuffer /\ ~s.streamingMode
                 THEN IF Len(s.BodyBuffer) + Len(b) > StreamingThreshold
                      THEN [w1 EXCEPT !.sink.streamingMode = TRUE]
                      ELSE [w1 EXCEPT !.sink = BodyBufferWrite(@, b)]
                 ELSE w1

\* ResponseWriter.Write that leaves the headers to the underlying writer
SinkWrite_NoHeader(w, b) == writeBody(w, b)

\* ResponseWriter.Write: the headers first, with status 200 when none was given
SinkWrite(w, b) ==
    writeBody(IF ~HeadersWritten(w) THEN SinkWriteHeader(w, StatusOK) ELSE w, b)

SinkFlush(w) ==
    TargetFlush(IF ~HeadersWritten(w) THEN SinkWriteHeader(w, StatusOK) ELSE w)

-----------------------------------------------------------------------------
(* handlers.responseLimitInterceptor *)

LimitMessage == "Response body size exceeds limit"

\* fmt.Sprintf of the 413 JSON in sendLimitExceededError
LimitErrorBody(maxSize, path) ==
    "{\"error\":{\"code\":" \o ToString(StatusRequestEntityTooLarge)
        \o ",\"message\":\"" \o LimitMessage
        \o "\",\"details\":{\"limit_bytes\":" \o ToString(maxSize)
        \o ",\"path\":\"" \o path \o "\"}}}"

LimitErrorHeaders(body) ==
    [k \in {"Content-Type", "X-Content-Type-Options", "Cache-Control", "Content-Length"} |->
        CASE k = "Content-Type" -> "application/json; charset=utf-8"
          [] k = "X-Content-Type-Options" -> "nosniff"
          [] k = "Cache-Control" -> "no-cache, no-store, must-revalidate"
          [] OTHER -> ToString(Len(body))]

newResponseLimitInterceptor(maxSize, path) ==
    [ maxSize         |-> maxSize,
      written         |-> 0,
      limitExceeded   |-> FALSE,
      headerWritten   |-> FALSE,
      path            |-> path,
      buffer          |-> "",
      statusCode      |-> StatusOK,
      originalHeaders |-> NoHeaders ]

\* the condition checkContentLength returns
ContentLengthOver(w) ==
    LET cl == HGet(w.rli.originalHeaders, "Content-Length")
    IN  cl # "" /\ ParseInt(cl).ok /\ ParseInt(cl).val > w.rli.maxSize

\* the state checkContentLength leaves
checkContentLength(w) ==
    IF ContentLengthOver(w) THEN [w EXCEPT !.rli.limitExceeded = TRUE] ELSE w

\* sendLimitExceededError without "rli.headerWritten = true"
sendLimitExceededError_HeaderNotMarked(w) ==
    IF w.rli.headerWritten THEN w
    ELSE LET errorResponse == LimitErrorBody(w.rli.maxSize, w.rli.path)
             w1 == [w EXCEPT !.rli.buffer = "",
                             !.hdr = LimitErrorHeaders(errorResponse)]
         IN  SinkWrite(SinkWriteHeader(w1, StatusRequestEntityTooLarge), errorResponse)

\* sendLimitExceededError without the final Write of the error body
sendLimitExceededError_NoBody(w) ==
    IF w.rli.headerWritten THEN w
    ELSE LET errorResponse == LimitErrorBody(w.rli.maxSize, w.rli.path)
             w1 == [w EXCEPT !.rli.buffer = "",
                             !.rli.headerWritten = TRUE,
                             !.hdr = LimitErrorHeaders(errorResponse)]
         IN  SinkWriteHeader(w1, StatusRequestEntityTooLarge)

sendLimitExceededError(w) ==
    IF w.rli.headerWritten THEN w
    ELSE LET errorResponse == LimitErrorBody(w.rli.maxSize, w.rli.path)
             w1 == [w EXCEPT !.rli.buffer = "",
                             !.rli.headerWritten = TRUE,
                             !.hdr = LimitErrorHeaders(errorResponse)]
         IN  SinkWrite(SinkWriteHeader(w1, StatusRequestEntityTooLarge), errorResponse)

flushBuffer(w) ==
    IF w.rli.headerWritten THEN w
    ELSE LET restored == HCopyInto(w.hdr, w.rli.originalHeaders)
             w1 == [w EXCEPT !.rli.headerWritten = TRUE,
                             !.hdr = IF Len(w.rli.buffer) > 0
                                     THEN HSet(restored, "Content-Length", ToString(Len(w.rli.buffer)))
                                     ELSE restored]
             w2 == SinkWriteHeader(w1, w.rli.statusCode)
         IN  IF Len(w.rli.buffer) > 0
             THEN [SinkWrite(w2, w.rli.buffer) EXCEPT !.rli.buffer = ""]
             ELSE w2

RLIWriteHeader(w, statusCode) ==
    IF w.rli.headerWritten THEN w
    ELSE LET w1 == [w EXCEPT !.rli.originalHeaders = HCopyInto(@, w.hdr),
                             !.rli.statusCode = statusCode]
         IN  IF ContentLengthOver(w1)
             THEN sendLimitExceededError(checkContentLength(w1))
             ELSE w1

TooLarge == [n |-> 0, err |-> "ErrResponseTooLarge"]

\* Write without the check of newTotal against maxSize
RLIWrite_NoOverflowCheck(w, b) ==
    IF w.rli.limitExceeded THEN [w EXCEPT !.ret = TooLarge]
    ELSE LET w1 == IF ~w.rli.headerWritten
                   THEN [w EXCEPT !.rli.originalHeaders = HCopyInto(@, w.hdr)]
                   ELSE w
         IN  IF ~w.rli.headerWritten /\ ContentLengthOver(w1)
             THEN [sendLimitExceededError(checkContentLength(w1)) EXCEPT !.ret = TooLarge]
             ELSE LET w3 == [w1 EXCEPT !.rli.buffer = @ \o b,
                                       !.rli.written = @ + Len(b)]
                      w4 == IF ~w3.rli.headerWritten THEN flushBuffer(w3) ELSE w3
                  IN  [w4 EXCEPT !.ret = [n |-> Len(b), err |-> "nil"]]

RLIWrite(w, b) ==
    IF w.rli.limitExceeded THEN [w EXCEPT !.ret = TooLarge]
    ELSE LET w1 == IF ~w.rli.headerWritten
                   THEN [w EXCEPT !.rli.originalHeaders = HCopyInto(@, w.hdr)]
                   ELSE w
         IN  IF ~w.rli.headerWritten /\ ContentLengthOver(w1)
             THEN [sendLimitExceededError(checkContentLength(w1)) EXCEPT !.ret = TooLarge]
             ELSE LET newTotal == w1.rli.written + Len(b)
                  IN  IF w1.rli.maxSize > 0 /\ newTotal > w1.rli.maxSize
                      THEN LET w2 == [w1 EXCEPT !.rli.limitExceeded = TRUE]
                           IN  IF ~w2.rli.headerWritten
                               THEN [sendLimitExceededError(w2) EXCEPT !.ret = TooLarge]
                               ELSE [w2 EXCEPT !.ret = TooLarge]
                      ELSE LET w3 == [w1 EXCEPT !.rli.buffer = @ \o b,
                                                !.rli.written = newTotal]
                               w4 == IF ~w3.rli.headerWritten THEN flushBuffer(w3) ELSE w3
                           IN  [w4 EXCEPT !.ret = [n |-> Len(b), err |-> "nil"]]

RLIFlush(w) ==
    LET w1 == IF ~w.rli.limitExceeded /\ ~w.rli.headerWritten /\ Len(w.rli.buffer) > 0
              THEN flushBuffer(w)
              ELSE w
    IN  SinkFlush(w1)

-----------------------------------------------------------------------------
(* handlers.sendError and the reverse proxy's error handler *)

RequestID == "rid-1"
Timestamp == "1700000000"

\* json.Marshal of errorResponse
GatewayErrorBody(code, message, upstreamError) ==
    "{\"error\":{\"code\":" \o ToString(code)
        \o ",\"message\":\"" \o message
        \o "\",\"details\":{\"upstream_error\":\"" \o upstreamError
        \o "\"}},\"request_id\":\"" \o RequestID
        \o "\",\"timestamp\":" \o Timestamp \o "}"

\* sendError from the marshalled response on: the headers, WriteHeader and
\* Write on the writer it was given, the interceptor or the ResponseWriter
sendErrorData(w, code, responseData, toInterceptor) ==
    LET h1 == HSet(w.hdr, "Content-Type", "application/json; charset=utf-8")
        h2 == HSet(h1, "X-Content-Type-Options", "nosniff")
        h3 == HSet(h2, "Cache-Control", "no-cache, no-store, must-revalidate")
        h4 == HSet(h3, "Content-Length", ToString(Len(responseData)))
        h5 == HSet(h4, "X-Request-ID", RequestID)
        w5 == [w EXCEPT !.hdr = h5]
    IN  IF toInterceptor
        THEN RLIWrite(RLIWriteHeader(w5, code), responseData)
        ELSE SinkWrite(SinkWriteHeader(w5, code), responseData)

sendError(w, code, message, upstreamError) ==
    sendErrorData(w, code, GatewayErrorBody(code, message, upstreamError), TRUE)

UpstreamErrors == {"timeout", "canceled", "refused"}

ErrorStatus(e) ==
    CASE e = "timeout" -> 504
      [] e = "canceled" -> 408
      [] OTHER -> 502

ErrorMessage(e) ==
    CASE e = "timeout" -> "Gateway Timeout"
      [] e = "canceled" -> "Request Timeout"
      [] OTHER -> "Bad Gateway"

\* the error response written to the ResponseWriter under the interceptor
errorHandler_Unwrapped(w, e) ==
    sendErrorData(w, ErrorStatus(e), GatewayErrorBody(ErrorStatus(e), ErrorMessage(e), e), FALSE)

\* the function createErrorHandler returns, called with the interceptor
errorHandler(w, e) ==
    IF w.rli.limitExceeded THEN w
    ELSE sendError(w, ErrorStatus(e), ErrorMessage(e), e)

-----------------------------------------------------------------------------
(* One request on a route with a body cap: handleLocationMatch builds the
   writers, the handler chain calls the interceptor, and handleLocationMatch
   flushes it when the chain returns. *)

InitWriters ==
    /\ phase = "new"
    /\ rli = newResponseLimitInterceptor(0, "")
    /\ sink = NewResponseWriter(TRUE, 0)
    /\ hdr = NoHeaders
    /\ tgt = NewTarget
    /\ calls = 0
    /\ seen = {}
    /\ accepted = ""
    /\ lastRet = NilRet
    /\ rejected = FALSE
    /\ afterLimit = 0
    /\ firstCall = ""
    /\ firstStatus = 0

\* the effect of one call on the interceptor, and what the model records of it
Apply(w2, isWrite, b) ==
    /\ rli' = w2.rli
    /\ sink' = w2.sink
    /\ hdr' = w2.hdr
    /\ tgt' = w2.tgt
    /\ lastRet' = IF isWrite THEN w2.ret ELSE lastRet
    /\ accepted' = IF isWrite /\ w2.ret.err = "nil" THEN accepted \o b ELSE accepted
    /\ rejected' = (rejected \/ (w2.rli.limitExceeded /\ ~rli.limitExceeded /\ ~rli.headerWritten))
    /\ afterLimit' = IF rli.limitExceeded THEN afterLimit + 1 ELSE afterLimit

isHealthCheck(path) == path \in {"/health", "/healthz", "/ready", "/readyz"}

\* buffering is off for a health check location and where the location says so;
\* the writer's own body limit is always set to 0
createResponseWriter(location) ==
    NewResponseWriter(~isHealthCheck(location.Path) /\ ~location.DisableResponseBuffering, 0)

\* handleLocationMatch up to the call of the handler chain, on a route whose
\* effective limit is positive
NewInterceptor(limit, location, path) ==
    /\ phase = "new"
    /\ phase' = "open"
    /\ rli' = newResponseLimitInterceptor(limit, path)
    /\ sink' = createResponseWriter(location)
    /\ UNCHANGED <<hdr, tgt, calls, seen, accepted, lastRet, rejected, afterLimit>>
    /\ UNCHANGED <<cfgVars, tcVars, whVars, bodyVars, mwVars, bootVars, errVars, rmVars, reloadVars, lbVars, ahVars, respVars, limVars, dirVars, cwVars>>

InCall == phase = "open" /\ calls < MaxCalls

\* the handler sets a response header: w.Header().Set(k, v)
HandlerSetHeader(k, v, ordered) ==
    /\ InCall
    /\ ordered => seen \cap {"Write", "Flush"} = {}
    /\ hdr' = HSet(hdr, k, v)
    /\ calls' = calls + 1
    /\ seen' = seen \ {"WriteHeader"}
    /\ UNCHANGED <<phase, rli, sink, tgt, accepted, lastRet, rejected, afterLimit>>
    /\ UNCHANGED <<cfgVars, tcVars, whVars, bodyVars, mwVars, bootVars, errVars, rmVars, reloadVars, lbVars, ahVars, respVars, limVars, dirVars, cwVars>>

HandlerWriteHeader(s, ordered) ==
    /\ InCall
    /\ ordered => seen \cap {"Write", "Flush"} = {}
    /\ Apply(RLIWriteHeader(World, s), FALSE, "")
    /\ calls' = calls + 1
    /\ seen' = seen \cup {"WriteHeader"}
    /\ UNCHANGED phase
    /\ UNCHANGED <<cfgVars, tcVars, whVars, bodyVars, mwVars, bootVars, errVars, rmVars, reloadVars, lbVars, ahVars, respVars, limVars, dirVars, cwVars>>

HandlerWrite(b) ==
    /\ InCall
    /\ Apply(RLIWrite(World, b), TRUE, b)
    /\ calls' = calls + 1
    /\ seen' = seen \cup {"Write"}
    /\ UNCHANGED phase
    /\ UNCHANGED <<cfgVars, tcVars, whVars, bodyVars, mwVars, bootVars, errVars, rmVars, reloadVars, lbVars, ahVars, respVars, limVars, dirVars, cwVars>>

HandlerFlush(ordered) ==
    /\ InCall
    /\ ordered => seen \cap {"WriteHeader", "Write"} # {}
    /\ Apply(RLIFlush(World), FALSE, "")
    /\ calls' = calls + 1
    /\ seen' = seen \cup {"Flush"}
    /\ UNCHANGED phase
    /\ UNCHANGED <<cfgVars, tcVars, whVars, bodyVars, mwVars, bootVars, errVars, rmVars, reloadVars, lbVars, ahVars, respVars, limVars, dirVars, cwVars>>

\* the reverse proxy reports a failed round trip to its ErrorHandler
ProxyError(e, ordered) ==
    /\ InCall
    /\ ordered => seen \cap {"Write", "Flush"} = {}
    /\ Apply(errorHandler(World, e), ~rli.limitExceeded,
             GatewayErrorBody(ErrorStatus(e), ErrorMessage(e), e))
    /\ calls' = calls + 1
    /\ seen' = seen \cup {"WriteHeader", "Write"}
    /\ UNCHANGED phase
    /\ UNCHANGED <<cfgVars, tcVars, whVars, bodyVars, mwVars, bootVars, errVars, rmVars, reloadVars, lbVars, ahVars, respVars, limVars, dirVars, cwVars>>

\* handleLocationMatch: the chain has returned, interceptor.Flush()
FinalFlush ==
    /\ phase = "open"
    /\ Apply(RLIFlush(World), FALSE, "")
    /\ phase' = "done"
    /\ UNCHANGED <<calls, seen>>
    /\ UNCHANGED <<cfgVars, tcVars, whVars, bodyVars, mwVars, bootVars, errVars, rmVars, reloadVars, lbVars, ahVars, respVars, limVars, dirVars, cwVars>>

HeaderChoices ==
    {<<"Content-Length", v>> : v \in ContentLengths}
        \cup {<<"Content-Type", "application/json">>, <<"X-Upstream", "u">>}


\* any sequence of calls on the interceptor
NextWriters ==
    \/ \E l \in Limits, rt \in Routes : NewInterceptor(l, rt[1], rt[2])
    \/ \E kv \in HeaderChoices : HandlerSetHeader(kv[1], kv[2], FALSE)
    \/ \E s \in Statuses : HandlerWriteHeader(s, FALSE)
    \/ \E b \in Chunks : HandlerWrite(b)
    \/ HandlerFlush(FALSE)
    \/ \E e \in UpstreamErrors : ProxyError(e, FALSE)
    \/ FinalFlush

\* the calls in the order the reverse proxy, sendError and the middlewares of
\* this repository make them: headers and WriteHeader first (an informational
\* status may precede the final one), then Write and Flush only; a Flush
\* follows the final WriteHeader or a Write, never a later header change.
\* seen holds the kinds of call made since the headers last changed.
NextOrdered ==
    \/ \E l \in Limits, rt \in Routes : NewInterceptor(l, rt[1], rt[2])
    \/ \E kv \in HeaderChoices : HandlerSetHeader(kv[1], kv[2], TRUE)
    \/ \E s \in Statuses : HandlerWriteHeader(s, TRUE)
    \/ \E b \in Chunks : HandlerWrite(b)
    \/ HandlerFlush(TRUE)
    \/ \E e \in UpstreamErrors : ProxyError(e, TRUE)
    \/ FinalFlush

-----------------------------------------------------------------------------
(* Configuration snapshots. A snapshot is the value of a ProxyConfig: its
   locations in declaration order and its generic transport settings. An
   HTTPTransportConfig is modelled by three of its fields. *)

NoTransportConfig == [MaxIdleConns |-> 0, DisableCompression |-> FALSE, CertFile |-> ""]
TransportA == [MaxIdleConns |-> 10, DisableCompression |-> FALSE, CertFile |-> ""]
TransportB == [MaxIdleConns |-> 20, DisableCompression |-> TRUE, CertFile |-> ""]
TransportTLS == [MaxIdleConns |-> 10, DisableCompression |-> FALSE, CertFile |-> "client.pem"]

\* LocationConfig.Transport is a pointer: <<>> is nil, <<t>> points to t
NoLocation == [Path |-> "", TargetURL |-> "", Transport |-> <<>>]
NoConfig == [Locations |-> <<>>, Transport |-> NoTransportConfig]

\* LoadConfiguration on a file that parses and validates: a location without
\* transport settings of its own is pointed to the snapshot's
LoadConfiguration(parsed) ==
    [parsed EXCEPT !.Locations =
        [i \in DOMAIN parsed.Locations |->
            IF parsed.Locations[i].Transport = <<>>
            THEN [parsed.Locations[i] EXCEPT !.Transport = <<parsed.Transport>>]
            ELSE parsed.Locations[i]]]

ConfigA ==
    LoadConfiguration(
        [Locations |-> << [Path |-> "^/api", TargetURL |-> "http://api-a", Transport |-> <<>>],
                          [Path |-> "^/img", TargetURL |-> "http://img-a", Transport |-> <<TransportTLS>>] >>,
         Transport |-> TransportA])

ConfigB ==
    LoadConfiguration(
        [Locations |-> << [Path |-> "^/img", TargetURL |-> "http://img-b", Transport |-> <<>>] >>,
         Transport |-> TransportB])

ConfigC ==
    LoadConfiguration(
        [Locations |-> << [Path |-> "^/img", TargetURL |-> "http://img-c", Transport |-> <<>>],
                          [Path |-> "^/api", TargetURL |-> "http://api-c", Transport |-> <<>>] >>,
         Transport |-> TransportA])

\* what a file holds whose second location has a pattern regexp.Compile refuses:
\* LoadConfiguration returns an error with the first location already compiled
BrokenConfig ==
    [Locations |-> << [Path |-> "^/img", TargetURL |-> "http://img-x", Transport |-> <<TransportB>>],
                      [Path |-> "^/(", TargetURL |-> "http://api-x", Transport |-> <<>>] >>,
     Transport |-> TransportB]

Configs == {ConfigA, ConfigB, ConfigC}
Requests == {"r1", "r2"}
RequestPaths == {"/api/x", "/img/y", "/none"}

\* location.CompiledRegex.MatchString(r.URL.Path) on the patterns of the model
MatchString(pattern, path) ==
    <<pattern, path>> \in {<<"^/api", "/api/x">>, <<"^/img", "/img/y">>}

\* reflect.DeepEqual on two snapshots
IsConfigDifferent(config1, config2) == config1 # config2

\* the transport settings GetTransport chooses for a location
EffectiveTransport(location, genericTransportConfig) ==
    IF location.Transport # <<>> THEN location.Transport[1] ELSE genericTransportConfig

-----------------------------------------------------------------------------
(* The configuration store: main loads the file into the global value and the
   Dito handle takes it from there; WatchConfig polls the file and hands a
   changed configuration to main's onChange; requests read dito.Config and the
   global value as they go. Location indexes are 1-based here. *)

InitConfig ==
    /\ currentConfig = ConfigA
    /\ ditoConfig = ConfigA
    /\ file = [content |-> ConfigA, valid |-> TRUE, modTime |-> 1]
    /\ watch = [pc |-> "tick", lastModified |-> 0, isFirstCheck |-> TRUE,
                fileModTime |-> 0, newConfig |-> NoConfig, published |-> ConfigA]
    /\ req = [r \in Requests |->
                [pc |-> "idle", path |-> "", locationIndex |-> 0, matched |-> NoConfig,
                 location |-> NoLocation, proxyLocation |-> NoLocation,
                 transportConfig |-> NoTransportConfig]]

\* somebody rewrites the configuration file
FileWrite(c, valid) ==
    /\ file.modTime <= MaxEdits
    /\ file' = [content |-> c, valid |-> valid, modTime |-> file.modTime + 1]
    /\ UNCHANGED <<currentConfig, ditoConfig, watch, req>>
    /\ UNCHANGED <<rliVars, tcVars, whVars, bodyVars, mwVars, bootVars, errVars, rmVars, reloadVars, lbVars, ahVars, respVars, limVars, dirVars, cwVars>>

\* WatchConfig: a tick that finds the file modified after lastModified
WatchConfigStat ==
    /\ watch.pc = "tick"
    /\ file.modTime > watch.lastModified
    /\ watch' = [watch EXCEPT !.pc = "load", !.fileModTime = file.modTime]
    /\ UNCHANGED <<currentConfig, ditoConfig, file, req>>
    /\ UNCHANGED <<rliVars, tcVars, whVars, bodyVars, mwVars, bootVars, errVars, rmVars, reloadVars, lbVars, ahVars, respVars, limVars, dirVars, cwVars>>

\* WatchConfig taking what LoadConfiguration had built when it failed
WatchConfigLoad_IgnoreError ==
    /\ watch.pc = "load"
    /\ watch' = [watch EXCEPT !.pc = "compare", !.newConfig = file.content]
    /\ UNCHANGED <<currentConfig, ditoConfig, file, req>>
    /\ UNCHANGED <<rliVars, tcVars, whVars, bodyVars, mwVars, bootVars, errVars, rmVars, reloadVars, lbVars, ahVars, respVars, limVars, dirVars, cwVars>>

\* WatchConfig: LoadConfiguration after the sleep; an error goes back to the loop
WatchConfigLoad ==
    /\ watch.pc = "load"
    /\ watch' = IF file.valid
                THEN [watch EXCEPT !.pc = "compare", !.newConfig = file.content]
                ELSE [watch EXCEPT !.pc = "tick"]
    /\ UNCHANGED <<currentConfig, ditoConfig, file, req>>
    /\ UNCHANGED <<rliVars, tcVars, whVars, bodyVars, mwVars, bootVars, errVars, rmVars, reloadVars, lbVars, ahVars, respVars, limVars, dirVars, cwVars>>

\* WatchConfig: the first check is skipped, later ones compare the loaded
\* configuration with GetCurrentProxyConfig()
WatchConfigCompare ==
    /\ watch.pc = "compare"
    /\ watch' = IF watch.isFirstCheck
                THEN [watch EXCEPT !.pc = "tick", !.isFirstCheck = FALSE,
                                   !.lastModified = watch.fileModTime]
                ELSE IF IsConfigDifferent(currentConfig, watch.newConfig)
                THEN [watch EXCEPT !.pc = "onChange"]
                ELSE [watch EXCEPT !.pc = "tick", !.lastModified = watch.fileModTime]
    /\ UNCHANGED <<currentConfig, ditoConfig, file, req>>
    /\ UNCHANGED <<rliVars, tcVars, whVars, bodyVars, mwVars, bootVars, errVars, rmVars, reloadVars, lbVars, ahVars, respVars, limVars, dirVars, cwVars>>

\* onChange: dito.UpdateComponents(newConfig)
UpdateComponents ==
    /\ watch.pc = "onChange"
    /\ ditoConfig' = watch.newConfig
    /\ watch' = [watch EXCEPT !.pc = "updateConfig"]
    /\ UNCHANGED <<currentConfig, file, req>>
    /\ UNCHANGED <<rliVars, tcVars, whVars, bodyVars, mwVars, bootVars, errVars, rmVars, reloadVars, lbVars, ahVars, respVars, limVars, dirVars, cwVars>>

\* onChange: dito.UpdateConfig(newConfig), which also clears the transport
\* cache; WatchConfig then records the modification time
DitoUpdateConfig ==
    /\ watch.pc = "updateConfig"
    /\ ditoConfig' = watch.newConfig
    /\ transports' = [k \in {} |-> 0]
    /\ watch' = [watch EXCEPT !.pc = "tick", !.published = watch.newConfig,
                              !.lastModified = watch.fileModTime]
    /\ UNCHANGED <<currentConfig, file, req>>
    /\ UNCHANGED <<rliVars, nextTransport, tc, cleared, whVars, bodyVars, mwVars, bootVars, errVars, rmVars, reloadVars, lbVars, ahVars, respVars, limVars, dirVars, cwVars>>

\* the index of the first location of cfg that matches path, 0 if none does
FirstMatch(cfg, path) ==
    LET hits == {i \in 1..Len(cfg.Locations) : MatchString(cfg.Locations[i].Path, path)}
    IN  IF hits = {} THEN 0 ELSE CHOOSE i \in hits : \A j \in hits : i <= j

\* DynamicProxyHandler: the loop over dito.Config.Locations
DynamicProxyHandler(r, path) ==
    /\ req[r].pc = "idle"
    /\ LET i == FirstMatch(ditoConfig, path)
       IN  req' = [req EXCEPT ![r].pc = IF i = 0 THEN "notFound" ELSE "matched",
                              ![r].path = path,
                              ![r].locationIndex = i,
                              ![r].matched = ditoConfig]
    /\ UNCHANGED <<currentConfig, ditoConfig, file, watch>>
    /\ UNCHANGED <<rliVars, tcVars, whVars, bodyVars, mwVars, bootVars, errVars, rmVars, reloadVars, lbVars, ahVars, respVars, limVars, dirVars, cwVars>>

\* handleLocationMatch: dito.Config.Locations[locationIndex]; an index out of
\* range panics
handleLocationMatch(r) ==
    /\ req[r].pc = "matched"
    /\ req' = IF req[r].locationIndex > Len(ditoConfig.Locations)
              THEN [req EXCEPT ![r].pc = "panic"]
              ELSE [req EXCEPT ![r].pc = "handler",
                               ![r].location = ditoConfig.Locations[req[r].locationIndex]]
    /\ UNCHANGED <<currentConfig, ditoConfig, file, watch>>
    /\ UNCHANGED <<rliVars, tcVars, whVars, bodyVars, mwVars, bootVars, errVars, rmVars, reloadVars, lbVars, ahVars, respVars, limVars, dirVars, cwVars>>

\* ServeProxy: dito.Config.Locations[locationIndex] again, for the target URL and
\* the Caronte transport
ServeProxy(r) ==
    /\ req[r].pc = "handler"
    /\ req' = IF req[r].locationIndex > Len(ditoConfig.Locations)
              THEN [req EXCEPT ![r].pc = "panic"]
              ELSE [req EXCEPT ![r].pc = "proxy",
                               ![r].proxyLocation = ditoConfig.Locations[req[r].locationIndex]]
    /\ UNCHANGED <<currentConfig, ditoConfig, file, watch>>
    /\ UNCHANGED <<rliVars, tcVars, whVars, bodyVars, mwVars, bootVars, errVars, rmVars, reloadVars, lbVars, ahVars, respVars, limVars, dirVars, cwVars>>

\* Caronte.RoundTrip: the location's transport settings, or the generic ones of
\* config.GetCurrentProxyConfig()
RoundTrip(r) ==
    /\ req[r].pc = "proxy"
    /\ req' = [req EXCEPT ![r].pc = "done",
                          ![r].transportConfig =
                              EffectiveTransport(req[r].proxyLocation, currentConfig.Transport)]
    /\ UNCHANGED <<currentConfig, ditoConfig, file, watch>>
    /\ UNCHANGED <<rliVars, tcVars, whVars, bodyVars, mwVars, bootVars, errVars, rmVars, reloadVars, lbVars, ahVars, respVars, limVars, dirVars, cwVars>>

NextConfig ==
    \/ \E c \in Configs, valid \in BOOLEAN : FileWrite(c, valid)
    \/ WatchConfigStat
    \/ WatchConfigLoad
    \/ WatchConfigCompare
    \/ UpdateComponents
    \/ DitoUpdateConfig
    \/ \E r \in Requests, path \in RequestPaths : DynamicProxyHandler(r, path)
    \/ \E r \in Requests : handleLocationMatch(r)
    \/ \E r \in Requests : ServeProxy(r)
    \/ \E r \in Requests : RoundTrip(r)

-----------------------------------------------------------------------------
(* The transport cache under concurrent GetTransport calls. A transport
   instance is the number of its allocation; 0 is nil. *)

Callers == {"c1", "c2", "c3"}
CacheLocations ==
    {[Path |-> "^/api", TargetURL |-> "http://api-a", Transport |-> t] :
        t \in {<<>>, <<TransportB>>, <<TransportTLS>>}}
GenericTransports == {TransportA, TransportB}

Bool(b) == IF b THEN "true" ELSE "false"

\* json.Marshal of an HTTPTransportConfig
Marshal(config) ==
    "{\"MaxIdleConns\":" \o ToString(config.MaxIdleConns)
        \o ",\"DisableCompression\":" \o Bool(config.DisableCompression)
        \o ",\"CertFile\":\"" \o JSONEscape(config.CertFile) \o "\"}"

\* the hex SHA-256 of the JSON: collisions are not modelled, the key is the JSON
generateTransportKey(config) == Marshal(config)

InitTransportCache ==
    /\ transports = [k \in {} |-> 0]
    /\ nextTransport = 0
    /\ tc = [c \in Callers |->
                [pc |-> "idle", transportConfig |-> NoTransportConfig, key |-> "",
                 customTransport |-> 0, transport |-> 0, err |-> "nil"]]
    /\ cleared = FALSE
    /\ removed = {}
    /\ began = [c \in Callers |-> {}]

\* GetTransport: choose the settings and compute the key
GetTransport(c, location, genericTransportConfig) ==
    /\ tc[c].pc = "idle"
    /\ LET transportConfig == EffectiveTransport(location, genericTransportConfig)
       IN  tc' = [tc EXCEPT ![c].pc = "load",
                            ![c].transportConfig = transportConfig,
                            ![c].key = generateTransportKey(transportConfig)]
    /\ began' = [began EXCEPT ![c] = removed]
    /\ UNCHANGED <<transports, nextTransport, cleared, removed>>
    /\ UNCHANGED <<rliVars, cfgVars, whVars, bodyVars, mwVars, bootVars, errVars, reloadVars, lbVars, ahVars, respVars, limVars, dirVars, cwVars>>

\* GetTransport: c.transports.Load(key)
GetTransportLoad(c) ==
    /\ tc[c].pc = "load"
    /\ tc' = IF tc[c].key \in DOMAIN transports
             THEN [tc EXCEPT ![c].pc = "done", ![c].transport = transports[tc[c].key]]
             ELSE [tc EXCEPT ![c].pc = "create"]
    /\ UNCHANGED <<transports, nextTransport, cleared>>
    /\ UNCHANGED <<rliVars, cfgVars, whVars, bodyVars, mwVars, bootVars, errVars, rmVars, reloadVars, lbVars, ahVars, respVars, limVars, dirVars, cwVars>>

\* GetTransport: createTransportFromConfig, which fails when the certificate
\* files cannot be loaded (filesOK is what the file system answers)
GetTransportCreate(c, filesOK) ==
    /\ tc[c].pc = "create"
    /\ IF tc[c].transportConfig.CertFile = "" THEN filesOK ELSE TRUE
    /\ IF filesOK
       THEN /\ nextTransport' = nextTransport + 1
            /\ tc' = [tc EXCEPT ![c].pc = "store", ![c].customTransport = nextTransport + 1]
       ELSE /\ nextTransport' = nextTransport
            /\ tc' = [tc EXCEPT ![c].pc = "done", ![c].err = "failed to load key pair"]
    /\ UNCHANGED <<transports, cleared>>
    /\ UNCHANGED <<rliVars, cfgVars, whVars, bodyVars, mwVars, bootVars, errVars, rmVars, reloadVars, lbVars, ahVars, respVars, limVars, dirVars, cwVars>>

\* GetTransport storing its own transport whatever the map holds
GetTransportLoadOrStore_Store(c) ==
    /\ tc[c].pc = "store"
    /\ transports' = [k \in DOMAIN transports \cup {tc[c].key} |->
                        IF k = tc[c].key THEN tc[c].customTransport ELSE transports[k]]
    /\ tc' = [tc EXCEPT ![c].pc = "done", ![c].transport = tc[c].customTransport]
    /\ UNCHANGED <<nextTransport, cleared>>
    /\ UNCHANGED <<rliVars, cfgVars, whVars, bodyVars, mwVars, bootVars, errVars, rmVars, reloadVars, lbVars, ahVars, respVars, limVars, dirVars, cwVars>>

\* GetTransport: c.transports.LoadOrStore(key, customTransport)
GetTransportLoadOrStore(c) ==
    /\ tc[c].pc = "store"
    /\ transports' = IF tc[c].key \in DOMAIN transports THEN transports
                     ELSE [k \in DOMAIN transports \cup {tc[c].key} |->
                              IF k = tc[c].key THEN tc[c].customTransport ELSE transports[k]]
    /\ tc' = [tc EXCEPT ![c].pc = "done",
                        ![c].transport = IF tc[c].key \in DOMAIN transports
                                         THEN transports[tc[c].key]
                                         ELSE tc[c].customTransport]
    /\ UNCHANGED <<nextTransport, cleared>>
    /\ UNCHANGED <<rliVars, cfgVars, whVars, bodyVars, mwVars, bootVars, errVars, rmVars, reloadVars, lbVars, ahVars, respVars, limVars, dirVars, cwVars>>

\* InvalidateTransport that leaves the entry in the map
InvalidateTransport_NoDelete(key) ==
    /\ key \in DOMAIN transports
    /\ cleared' = TRUE
    /\ removed' = removed \cup {<<key, transports[key]>>}
    /\ UNCHANGED <<transports, nextTransport, tc, began>>
    /\ UNCHANGED <<rliVars, cfgVars, whVars, bodyVars, mwVars, bootVars, errVars, reloadVars, lbVars, ahVars, respVars, limVars, dirVars, cwVars>>

\* InvalidateTransport, and each step of Clear: c.transports.Delete(key)
InvalidateTransport(key) ==
    /\ key \in DOMAIN transports
    /\ transports' = [k \in DOMAIN transports \ {key} |-> transports[k]]
    /\ cleared' = TRUE
    /\ removed' = removed \cup {<<key, transports[key]>>}
    /\ UNCHANGED <<nextTransport, tc, began>>
    /\ UNCHANGED <<rliVars, cfgVars, whVars, bodyVars, mwVars, bootVars, errVars, reloadVars, lbVars, ahVars, respVars, limVars, dirVars, cwVars>>

NextTransport ==
    \/ \E c \in Callers, l \in CacheLocations, g \in GenericTransports : GetTransport(c, l, g)
    \/ \E c \in Callers : GetTransportLoad(c)
    \/ \E c \in Callers, filesOK \in BOOLEAN : GetTransportCreate(c, filesOK)
    \/ \E c \in Callers : GetTransportLoadOrStore(c)
    \/ \E key \in DOMAIN transports : InvalidateTransport(key)

-----------------------------------------------------------------------------
(* writer.ResponseWriter.WriteHeader called by several goroutines. sync.Once
   lets the first caller run the function and holds the others until it has
   finished. *)

Goroutines == {"g1", "g2"}
SinkLimits == {0, MaxLimit, DefaultMaxResponseBodySize}
SinkContentLengths ==
    {"", ToString(MaxLimit - 1), ToString(MaxLimit + 1), ToString(DefaultMaxResponseBodySize + 1)}

InitWriteHeader ==
    /\ wh = [g \in Goroutines |-> [pc |-> "idle", statusCode |-> 0, calls |-> 0]]
    /\ onceBusy = FALSE
    /\ firstOffers = {}
    /\ returned = 0
    /\ declared = ""

\* NewResponseWriter with its options, and the headers the handler sets
NewSink(buffering, maxBody, contentLength) ==
    /\ phase = "new"
    /\ phase' = "sink"
    /\ sink' = NewResponseWriter(buffering, maxBody)
    /\ hdr' = IF contentLength = "" THEN NoHeaders
              ELSE HSet(NoHeaders, "Content-Length", contentLength)
    /\ declared' = contentLength
    /\ UNCHANGED <<rli, tgt, calls, seen, accepted, lastRet, rejected, afterLimit>>
    /\ UNCHANGED <<wh, onceBusy, firstOffers, returned>>
    /\ UNCHANGED <<cfgVars, tcVars, bodyVars, mwVars, bootVars, errVars, rmVars, reloadVars, lbVars, ahVars, respVars, limVars, dirVars, cwVars>>

\* a goroutine calls WriteHeader(statusCode)
WriteHeaderCall(g, statusCode) ==
    /\ phase = "sink"
    /\ wh[g].pc = "idle"
    /\ wh[g].calls < MaxWriteHeaderCalls
    /\ wh' = [wh EXCEPT ![g] = [pc |-> "once", statusCode |-> statusCode, calls |-> @.calls + 1]]
    /\ firstOffers' = IF returned = 0 THEN firstOffers \cup {statusCode} ELSE firstOffers
    /\ UNCHANGED <<onceBusy, returned, declared>>
    /\ UNCHANGED <<rliVars, cfgVars, tcVars, bodyVars, mwVars, bootVars, errVars, rmVars, reloadVars, lbVars, ahVars, respVars, limVars, dirVars, cwVars>>

\* writeHeaderOnce.Do letting every caller run the function
WriteHeaderOnce_NoGuard(g) ==
    /\ wh[g].pc = "once"
    /\ wh' = [wh EXCEPT ![g].pc = "body"]
    /\ onceBusy' = TRUE
    /\ UNCHANGED <<firstOffers, returned, declared>>
    /\ UNCHANGED <<rliVars, cfgVars, tcVars, bodyVars, mwVars, bootVars, errVars, rmVars, reloadVars, lbVars, ahVars, respVars, limVars, dirVars, cwVars>>

\* writeHeaderOnce.Do: done already, or the first caller enters the function;
\* a caller that finds the function running waits
WriteHeaderOnce(g) ==
    /\ wh[g].pc = "once"
    /\ IF sink.onceDone THEN TRUE ELSE ~onceBusy
    /\ wh' = [wh EXCEPT ![g].pc = IF sink.onceDone THEN "return" ELSE "body"]
    /\ onceBusy' = ~sink.onceDone
    /\ UNCHANGED <<firstOffers, returned, declared>>
    /\ UNCHANGED <<rliVars, cfgVars, tcVars, bodyVars, mwVars, bootVars, errVars, rmVars, reloadVars, lbVars, ahVars, respVars, limVars, dirVars, cwVars>>

\* the function runs under headerMu and the once is marked done
WriteHeaderBody(g) ==
    /\ wh[g].pc = "body"
    /\ LET w2 == writeHeaderBody(World, wh[g].statusCode)
       IN  /\ sink' = [w2.sink EXCEPT !.onceDone = TRUE]
           /\ hdr' = w2.hdr
           /\ tgt' = w2.tgt
    /\ wh' = [wh EXCEPT ![g].pc = "return"]
    /\ onceBusy' = FALSE
    /\ UNCHANGED <<phase, rli, calls, seen, accepted, lastRet, rejected, afterLimit>>
    /\ UNCHANGED <<firstOffers, returned, declared>>
    /\ UNCHANGED <<cfgVars, tcVars, bodyVars, mwVars, bootVars, errVars, rmVars, reloadVars, lbVars, ahVars, respVars, limVars, dirVars, cwVars>>

WriteHeaderReturn(g) ==
    /\ wh[g].pc = "return"
    /\ wh' = [wh EXCEPT ![g].pc = "idle"]
    /\ returned' = returned + 1
    /\ UNCHANGED <<onceBusy, firstOffers, declared>>
    /\ UNCHANGED <<rliVars, cfgVars, tcVars, bodyVars, mwVars, bootVars, errVars, rmVars, reloadVars, lbVars, ahVars, respVars, limVars, dirVars, cwVars>>

NextSink ==
    \/ \E b \in BOOLEAN, m \in SinkLimits, cl \in SinkContentLengths : NewSink(b, m, cl)
    \/ \E g \in Goroutines, s \in Statuses : WriteHeaderCall(g, s)
    \/ \E g \in Goroutines : WriteHeaderOnce(g)
    \/ \E g \in Goroutines : WriteHeaderBody(g)
    \/ \E g \in Goroutines : WriteHeaderReturn(g)

(* One handler writing its response call by call: to the interceptor on a route
   with a body limit (phase "open"), to the writer.ResponseWriter itself where
   it is used without one (phase "sink"). *)

InBody == phase \in {"open", "sink"} /\ calls < MaxBodyCalls

\* the call reaches the interceptor or the writer, whichever the handler holds
ApplyBody(forInterceptor, forSink, kind, statusCode, b) ==
    /\ Apply(IF phase = "open" THEN forInterceptor ELSE forSink,
             phase = "sink" /\ kind = "Write", b)
    /\ calls' = calls + 1
    /\ seen' = seen \cup {kind}
    /\ firstCall' = IF firstCall = "" THEN kind ELSE firstCall
    /\ firstStatus' = IF firstStatus = 0 THEN statusCode ELSE firstStatus
    /\ UNCHANGED phase
    /\ UNCHANGED <<cfgVars, tcVars, whVars, mwVars, bootVars, errVars, rmVars, reloadVars, lbVars, ahVars, respVars, limVars, dirVars, cwVars>>

BodySetContentLength(v) ==
    /\ phase = "open"
    /\ calls = 0
    /\ HGet(hdr, "Content-Length") = ""
    /\ hdr' = HSet(hdr, "Content-Length", v)
    /\ UNCHANGED <<phase, rli, sink, tgt, calls, seen, accepted, lastRet, rejected, afterLimit>>
    /\ UNCHANGED <<cfgVars, tcVars, whVars, bodyVars, mwVars, bootVars, errVars, rmVars, reloadVars, lbVars, ahVars, respVars, limVars, dirVars, cwVars>>

BodyWriteHeader(statusCode) ==
    /\ InBody
    /\ ApplyBody(RLIWriteHeader(World, statusCode), SinkWriteHeader(World, statusCode), "WriteHeader", statusCode, "")

BodyWrite(b) ==
    /\ InBody
    /\ ApplyBody(RLIWrite(World, b), SinkWrite(World, b), "Write", 0, b)

BodyFlush ==
    /\ InBody
    /\ ApplyBody(RLIFlush(World), SinkFlush(World), "Flush", 0, "")

NextBody ==
    \/ \E l \in Limits, rt \in Routes : NewInterceptor(l, rt[1], rt[2])
    \/ \E b \in BOOLEAN, m \in SinkLimits, cl \in SinkContentLengths : NewSink(b, m, cl)
    \/ \E v \in ContentLengths \ {""} : BodySetContentLength(v)
    \/ \E s \in Statuses : BodyWriteHeader(s)
    \/ \E b \in Chunks : BodyWrite(b)
    \/ BodyFlush
    \/ FinalFlush

(* writer.ResponseWriter deciding what to keep in its buffer: the options it
   is built with, the headers the handler has set before its first call, and
   body writes up to and past the streaming threshold. *)

RECURSIVE Doubled(_, _)
Doubled(s, k) == IF k = 0 THEN s ELSE Doubled(s \o s, k - 1)

\* StreamingThreshold bytes in one slice
Block == Doubled("x", 19)

BufferSizes == {2, DefaultMaxBufferSize}
BufferingContentTypes == {"", "video/mp4"}
TransferEncodings == {"", "chunked"}
BufferingContentLengths == {"", ToString(StreamingThreshold + 1)}
BufferingChunks == {"a", "bc", Block}

\* the option WithMaxBufferSize; the buffer is created after the options
WithMaxBufferSize(s, size) ==
    [s EXCEPT !.bufferSize = size, !.bufferCap = IF s.shouldBuffer THEN size ELSE 0]

HSetIf(h, k, v) == IF v = "" THEN h ELSE HSet(h, k, v)

NewBufferingSink(buffering, size, contentType, transferEncoding, contentLength) ==
    /\ phase = "new"
    /\ phase' = "sink"
    /\ sink' = WithMaxBufferSize(NewResponseWriter(buffering, DefaultMaxResponseBodySize), size)
    /\ hdr' = HSetIf(HSetIf(HSetIf(NoHeaders, "Content-Type", contentType),
                            "Transfer-Encoding", transferEncoding),
                     "Content-Length", contentLength)
    /\ UNCHANGED <<rli, tgt, calls, seen, accepted, lastRet, rejected, afterLimit>>
    /\ UNCHANGED <<cfgVars, tcVars, whVars, bodyVars, mwVars, bootVars, errVars, rmVars, reloadVars, lbVars, ahVars, respVars, limVars, dirVars, cwVars>>

NextBuffering ==
    \/ \E buffering \in BOOLEAN, size \in BufferSizes, ct \in BufferingContentTypes,
          te \in TransferEncodings, cl \in BufferingContentLengths :
            NewBufferingSink(buffering, size, ct, te, cl)
    \/ BodyWriteHeader(StatusOK)
    \/ \E b \in BufferingChunks : BodyWrite(b)

(* writer.ResponseWriter.Write called by several goroutines on one writer.
   Write holds no lock of its own: the underlying Write and the counter come
   first, LimitedBuffer.Write (under the buffer's mutex) later, and another
   goroutine's Write may run in between. *)

ConcChunks == {"a", "bc"}

InitConcWrite == cw = [g \in Goroutines |-> [pc |-> "idle", b |-> "", calls |-> 0]]

\* Write up to and including the underlying Write and the byte counter; a call
\* that takes one of the body limit branches returns from there
ConcWriteForward(g, b) ==
    /\ phase = "sink"
    /\ cw[g].pc = "idle"
    /\ cw[g].calls < MaxConcWrites
    /\ LET w0 == IF ~HeadersWritten(World) THEN SinkWriteHeader(World, StatusOK) ELSE World
           w2 == writeBody(w0, b)
           normal == /\ ~w0.sink.responseLimitHit
                     /\ ~(w0.sink.maxResponseBodySize > 0
                            /\ w0.sink.BytesWritten + Len(b) > w0.sink.maxResponseBodySize)
       IN  /\ sink' = [w2.sink EXCEPT !.BodyBuffer = w0.sink.BodyBuffer,
                                      !.streamingMode = w0.sink.streamingMode]
           /\ hdr' = w2.hdr
           /\ tgt' = w2.tgt
           /\ cw' = [cw EXCEPT ![g] = [pc |-> IF normal THEN "buffer" ELSE "idle",
                                       b |-> b, calls |-> @.calls + 1]]
    /\ UNCHANGED <<phase, rli, calls, seen, accepted, lastRet, rejected, afterLimit>>
    /\ UNCHANGED <<cfgVars, tcVars, whVars, bodyVars, mwVars, bootVars, errVars, rmVars, reloadVars, lbVars, ahVars, respVars, limVars, dirVars>>

\* Write from "Buffer management" on, with the writer as it is by then
ConcWriteBuffer(g) ==
    /\ cw[g].pc = "buffer"
    /\ sink' = IF sink.shouldBuffer /\ ~sink.streamingMode
               THEN IF Len(sink.BodyBuffer) + Len(cw[g].b) > StreamingThreshold
                    THEN [sink EXCEPT !.streamingMode = TRUE]
                    ELSE BodyBufferWrite(sink, cw[g].b)
               ELSE sink
    /\ cw' = [cw EXCEPT ![g].pc = "idle"]
    /\ UNCHANGED <<phase, rli, hdr, tgt, calls, seen, accepted, lastRet, rejected, afterLimit>>
    /\ UNCHANGED <<cfgVars, tcVars, whVars, bodyVars, mwVars, bootVars, errVars, rmVars, reloadVars, lbVars, ahVars, respVars, limVars, dirVars>>

NextConcWrite ==
    \/ \E buffering \in BOOLEAN, m \in {0, MaxLimit}, cl \in {"", ToString(MaxLimit - 1)} :
            NewSink(buffering, m, cl)
    \/ \E g \in Goroutines, b \in ConcChunks : ConcWriteForward(g, b)
    \/ \E g \in Goroutines : ConcWriteBuffer(g)

(* handlers.applyMiddlewares and the handler it returns, serving one request
   through the writer handleLocationMatch built. A handler is the sequence of
   the middlewares wrapped around the engine, outermost first, or the
   blocking handler. *)

StatusInternalServerError == 500
StatusTooManyRequests == 429

criticalMiddlewares == {"auth", "security"}

\* a loaded plugin: its Name() and whether MiddlewareFunc() is non-nil
Plugin(name, hasMiddleware) == [name |-> name, middleware |-> hasMiddleware]

PluginLists ==
    { <<>>,
      <<Plugin("m1", TRUE), Plugin("m2", TRUE), Plugin("m3", TRUE), Plugin("auth", TRUE)>>,
      <<Plugin("m3", TRUE), Plugin("m1", TRUE)>>,
      <<Plugin("m2", FALSE), Plugin("auth", FALSE), Plugin("m2", TRUE)>>,
      <<Plugin("security", TRUE), Plugin("m1", TRUE)>> }

MiddlewareLists ==
    { <<>>, <<"m1", "m2", "m3">>, <<"m3", "m1">>, <<"m2", "m2">>,
      <<"auth", "m1">>, <<"m1", "auth", "m2">>, <<"auth", "security">> }

RouteLimits == {0} \cup Limits

\* the inner loop: some plugin has the name and a middleware function
Applied(middlewareName, plugins) ==
    \E j \in 1..Len(plugins) :
        plugins[j].name = middlewareName /\ plugins[j].middleware

EngineHandler == [blocking |-> FALSE, chain |-> <<>>, missingCritical |-> <<>>]

\* the body of the loop for location.Middlewares[i]
applyOne(h, middlewareName, plugins) ==
    IF Applied(middlewareName, plugins)
    THEN [h EXCEPT !.chain = <<middlewareName>> \o @]
    ELSE IF middlewareName \in criticalMiddlewares
    THEN [h EXCEPT !.missingCritical = Append(@, middlewareName)]
    ELSE h

RECURSIVE applyFrom(_, _, _, _)
applyFrom(i, h, middlewares, plugins) ==
    IF i < 1 THEN h
    ELSE applyFrom(i - 1, applyOne(h, middlewares[i], plugins), middlewares, plugins)

RECURSIVE applyUpTo(_, _, _, _)
applyUpTo(i, h, middlewares, plugins) ==
    IF i > Len(middlewares) THEN h
    ELSE applyUpTo(i + 1, applyOne(h, middlewares[i], plugins), middlewares, plugins)

createBlockingHandler(h) == [h EXCEPT !.blocking = TRUE, !.chain = <<>>]

\* the loop running from the first configured middleware to the last
applyMiddlewares_Forward(middlewares, plugins) ==
    LET h == applyUpTo(1, EngineHandler, middlewares, plugins)
    IN  IF Len(h.missingCritical) > 0 THEN createBlockingHandler(h) ELSE h

\* the loop runs from the last configured middleware to the first
applyMiddlewares(middlewares, plugins) ==
    LET h == applyFrom(Len(middlewares), EngineHandler, middlewares, plugins)
    IN  IF Len(h.missingCritical) > 0 THEN createBlockingHandler(h) ELSE h

\* json.Marshal of a []string
RECURSIVE JSONStrings(_)
JSONStrings(names) ==
    IF names = <<>> THEN ""
    ELSE "\"" \o JSONEscape(names[1]) \o "\""
            \o (IF Len(names) > 1 THEN "," ELSE "") \o JSONStrings(Tail(names))

\* json.Marshal of the errorResponse the blocking handler sends
BlockingErrorBody(missingMiddlewares) ==
    "{\"error\":{\"code\":" \o ToString(StatusInternalServerError)
        \o ",\"message\":\"Service configuration error"
        \o "\",\"details\":{\"missing_components\":[" \o JSONStrings(missingMiddlewares)
        \o "]}},\"request_id\":\"" \o RequestID
        \o "\",\"timestamp\":" \o Timestamp \o "}"

InitMiddleware ==
    mw = [middlewares |-> <<>>, plugins |-> <<>>, handler |-> EngineHandler,
          toInterceptor |-> FALSE, invoked |-> <<>>, responded |-> FALSE]

\* handleLocationMatch up to finalHandler.ServeHTTP(targetWriter, r)
HandleLocationMatch(limit, location, path, middlewares, plugins) ==
    /\ phase = "new"
    /\ phase' = "chain"
    /\ rli' = IF limit > 0 THEN newResponseLimitInterceptor(limit, path) ELSE rli
    /\ sink' = createResponseWriter(location)
    /\ mw' = [middlewares |-> middlewares, plugins |-> plugins,
              handler |-> applyMiddlewares(middlewares, plugins),
              toInterceptor |-> limit > 0, invoked |-> <<>>, responded |-> FALSE]
    /\ UNCHANGED <<hdr, tgt, calls, seen, accepted, lastRet, rejected, afterLimit>>
    /\ UNCHANGED <<cfgVars, tcVars, whVars, bodyVars, bootVars, errVars, rmVars, reloadVars, lbVars, ahVars, respVars, limVars, dirVars, cwVars>>

InChain == phase = "chain" /\ ~mw.responded

NextInChain == mw.handler.chain[Len(mw.invoked) + 1]

\* the next middleware is invoked and calls the handler it wraps
MiddlewareNext ==
    /\ InChain
    /\ Len(mw.invoked) < Len(mw.handler.chain)
    /\ mw' = [mw EXCEPT !.invoked = Append(@, NextInChain)]
    /\ UNCHANGED <<rliVars, cfgVars, tcVars, whVars, bodyVars, bootVars, errVars, rmVars, reloadVars, lbVars, ahVars, respVars, limVars, dirVars, cwVars>>

\* the next middleware is invoked and answers the request itself, as the rate
\* limiter does with http.Error
MiddlewareResponds ==
    /\ InChain
    /\ Len(mw.invoked) < Len(mw.handler.chain)
    /\ LET w1 == [World EXCEPT !.hdr = HSet(HSet(hdr, "Content-Type", "text/plain; charset=utf-8"),
                                            "X-Content-Type-Options", "nosniff")]
       IN  Apply(IF mw.toInterceptor
                 THEN RLIWrite(RLIWriteHeader(w1, StatusTooManyRequests), "Too Many Requests\n")
                 ELSE SinkWrite(SinkWriteHeader(w1, StatusTooManyRequests), "Too Many Requests\n"),
                 FALSE, "")
    /\ mw' = [mw EXCEPT !.invoked = Append(@, NextInChain), !.responded = TRUE]
    /\ UNCHANGED <<phase, calls, seen>>
    /\ UNCHANGED <<cfgVars, tcVars, whVars, bodyVars, bootVars, errVars, rmVars, reloadVars, lbVars, ahVars, respVars, limVars, dirVars, cwVars>>

\* the proxy handler is reached and relays the upstream's response
EngineServes(b) ==
    /\ InChain
    /\ ~mw.handler.blocking
    /\ Len(mw.invoked) = Len(mw.handler.chain)
    /\ Apply(IF mw.toInterceptor
             THEN RLIWrite(RLIWriteHeader(World, StatusOK), b)
             ELSE SinkWrite(SinkWriteHeader(World, StatusOK), b), mw.toInterceptor, b)
    /\ mw' = [mw EXCEPT !.invoked = Append(@, "engine"), !.responded = TRUE]
    /\ UNCHANGED <<phase, calls, seen>>
    /\ UNCHANGED <<cfgVars, tcVars, whVars, bodyVars, bootVars, errVars, rmVars, reloadVars, lbVars, ahVars, respVars, limVars, dirVars, cwVars>>

\* the handler createBlockingHandler returns
BlockingHandlerServes ==
    /\ InChain
    /\ mw.handler.blocking
    /\ Apply(sendErrorData(World, StatusInternalServerError,
                           BlockingErrorBody(mw.handler.missingCritical), mw.toInterceptor),
             FALSE, "")
    /\ mw' = [mw EXCEPT !.responded = TRUE]
    /\ UNCHANGED <<phase, calls, seen>>
    /\ UNCHANGED <<cfgVars, tcVars, whVars, bodyVars, bootVars, errVars, rmVars, reloadVars, lbVars, ahVars, respVars, limVars, dirVars, cwVars>>

\* handleLocationMatch after ServeHTTP has returned: interceptor.Flush()
ChainReturns ==
    /\ phase = "chain"
    /\ mw.responded
    /\ Apply(IF mw.toInterceptor THEN RLIFlush(World) ELSE World, FALSE, "")
    /\ phase' = "handled"
    /\ UNCHANGED <<calls, seen, mw>>
    /\ UNCHANGED <<cfgVars, tcVars, whVars, bodyVars, bootVars, errVars, rmVars, reloadVars, lbVars, ahVars, respVars, limVars, dirVars, cwVars>>

NextMiddleware ==
    \/ \E l \in RouteLimits, rt \in Routes, ms \in MiddlewareLists, ps \in PluginLists :
           HandleLocationMatch(l, rt[1], rt[2], ms, ps)
    \/ MiddlewareNext
    \/ MiddlewareResponds
    \/ \E b \in Chunks : EngineServes(b)
    \/ BlockingHandlerServes
    \/ ChainReturns

(* Startup: main.StartServer calls plugin.LoadAndVerifyPlugins, initialises
   the plugins it returned and starts the listener. The files are those found
   on disk when the process starts. SHA-256 is taken to be free of collisions
   and an Ed25519 signature to verify only under the key that made it, over
   the digest it was made for. *)

PublicKeys == {"k1", "k2"}
Binaries == {"bin1", "bin2"}

Sum256(data) == "sha256:" \o data

\* hex.EncodeToString of the digest, as public_key_hash is written
HexDigest(data) == "hex:" \o Sum256(data)

\* the content of <name>.so.sig: absent or not hex, or a signature made with
\* the private half of signer over digest
NoSignature == [present |-> FALSE, signer |-> "", digest |-> ""]
Sign(signer, data) == [present |-> TRUE, signer |-> signer, digest |-> Sum256(data)]

Signatures == {NoSignature} \cup {Sign(k, b) : k \in PublicKeys, b \in Binaries}

\* a directory under plugins.directory
DirEntry(name, binary, signature, initOK) ==
    [name |-> name, binary |-> binary, signature |-> signature, initOK |-> initOK]

DirEntries ==
    {DirEntry("auth", b, sg, TRUE) : b \in Binaries, sg \in Signatures}
        \cup {DirEntry("m1", "bin1", Sign("k1", "bin1"), ok) : ok \in BOOLEAN}

\* os.ReadDir: sorted by name
PluginDirs ==
    {<<>>} \cup {<<e>> : e \in DirEntries}
        \cup {<<e1, e2>> : e1 \in {e \in DirEntries : e.name = "auth"},
                           e2 \in {e \in DirEntries : e.name = "m1"}}

RouteMiddlewares == {<<>>, <<"auth">>, <<"m1", "auth">>}

ed25519Verify(publicKey, digest, signature) ==
    signature.present /\ signature.signer = publicKey /\ signature.digest = digest

\* the signature checked against the digest alone, whoever signed
verifyPluginSignature_AnyKey(entry, publicKey) ==
    entry.signature.present /\ entry.signature.digest = Sum256(entry.binary)

\* TRUE where the function returns nil
verifyPluginSignature(entry, publicKey) ==
    ed25519Verify(publicKey, Sum256(entry.binary), entry.signature)

validatePublicKeyIntegrity(keyFile, expectedHash) ==
    HexDigest(keyFile) = expectedHash

InitBoot ==
    boot = [pc |-> "main", keyFile |-> "", expectedHash |-> "", dir |-> <<>>,
            middlewares |-> <<>>, publicKey |-> "", next |-> 1, plugins |-> <<>>,
            initialized |-> 0]

\* main up to StartServer: the configuration is loaded and the files are there
Main(keyFile, expectedHash, dir, middlewares) ==
    /\ boot.pc = "main"
    /\ boot' = [boot EXCEPT !.pc = "validate", !.keyFile = keyFile,
                            !.expectedHash = expectedHash, !.dir = dir,
                            !.middlewares = middlewares]
    /\ UNCHANGED <<rliVars, cfgVars, tcVars, whVars, bodyVars, mwVars, errVars, rmVars, reloadVars, lbVars, ahVars, respVars, limVars, dirVars, cwVars>>

\* LoadAndVerifyPlugins up to the loop; its error makes StartServer exit
LoadAndVerifyPluginsKey ==
    /\ boot.pc = "validate"
    /\ boot' = IF validatePublicKeyIntegrity(boot.keyFile, boot.expectedHash)
               THEN [boot EXCEPT !.pc = "load", !.publicKey = boot.keyFile]
               ELSE [boot EXCEPT !.pc = "exit"]
    /\ UNCHANGED <<rliVars, cfgVars, tcVars, whVars, bodyVars, mwVars, errVars, rmVars, reloadVars, lbVars, ahVars, respVars, limVars, dirVars, cwVars>>

\* one turn of the loop over the directory: LoadPlugin, and on its error continue
LoadPlugin ==
    /\ boot.pc = "load"
    /\ boot.next <= Len(boot.dir)
    /\ LET entry == boot.dir[boot.next]
       IN  boot' = IF verifyPluginSignature(entry, boot.publicKey)
                   THEN [boot EXCEPT !.next = @ + 1, !.plugins = Append(@, entry)]
                   ELSE [boot EXCEPT !.next = @ + 1]
    /\ UNCHANGED <<rliVars, cfgVars, tcVars, whVars, bodyVars, mwVars, errVars, rmVars, reloadVars, lbVars, ahVars, respVars, limVars, dirVars, cwVars>>

\* LoadAndVerifyPlugins returns the plugins it loaded
LoadAndVerifyPluginsReturn ==
    /\ boot.pc = "load"
    /\ boot.next > Len(boot.dir)
    /\ boot' = [boot EXCEPT !.pc = "init"]
    /\ UNCHANGED <<rliVars, cfgVars, tcVars, whVars, bodyVars, mwVars, errVars, rmVars, reloadVars, lbVars, ahVars, respVars, limVars, dirVars, cwVars>>

\* StartServer: p.Init for the next plugin, os.Exit(1) when it fails
InitPlugin ==
    /\ boot.pc = "init"
    /\ boot.initialized < Len(boot.plugins)
    /\ boot' = IF boot.plugins[boot.initialized + 1].initOK
               THEN [boot EXCEPT !.initialized = @ + 1]
               ELSE [boot EXCEPT !.pc = "exit"]
    /\ UNCHANGED <<rliVars, cfgVars, tcVars, whVars, bodyVars, mwVars, errVars, rmVars, reloadVars, lbVars, ahVars, respVars, limVars, dirVars, cwVars>>

\* StartServer: the mux is built and server.ListenAndServe accepts connections
ListenAndServe ==
    /\ boot.pc = "init"
    /\ boot.initialized = Len(boot.plugins)
    /\ boot' = [boot EXCEPT !.pc = "serving"]
    /\ UNCHANGED <<rliVars, cfgVars, tcVars, whVars, bodyVars, mwVars, errVars, rmVars, reloadVars, lbVars, ahVars, respVars, limVars, dirVars, cwVars>>

NextBoot ==
    \/ \E k \in PublicKeys, h \in PublicKeys, d \in PluginDirs, ms \in RouteMiddlewares :
           Main(k, HexDigest(h), d, ms)
    \/ LoadAndVerifyPluginsKey
    \/ LoadPlugin
    \/ LoadAndVerifyPluginsReturn
    \/ InitPlugin
    \/ ListenAndServe

(* The reverse proxy's round trip fails on a route with a body cap: its
   ErrorHandler is called once, among the other calls on the interceptor. *)

NoUpstreamErr == [error |-> "", before |-> NewTarget, limitExceeded |-> FALSE]

InitUpstreamErr == upstreamErr = NoUpstreamErr

BeforeError == calls < MaxErrorCalls /\ upstreamErr.error = ""

\* httputil.ReverseProxy calls ErrorHandler(w, req, err) with the writer it serves
RoundTripFails(e) ==
    /\ InCall
    /\ upstreamErr.error = ""
    /\ Apply(errorHandler(World, e), ~rli.limitExceeded,
             GatewayErrorBody(ErrorStatus(e), ErrorMessage(e), e))
    /\ upstreamErr' = [error |-> e, before |-> tgt, limitExceeded |-> rli.limitExceeded]
    /\ calls' = calls + 1
    /\ seen' = seen \cup {"WriteHeader", "Write"}
    /\ UNCHANGED phase
    /\ UNCHANGED <<cfgVars, tcVars, whVars, bodyVars, mwVars, bootVars, rmVars, reloadVars, lbVars, ahVars, respVars, limVars, dirVars, cwVars>>

NextError ==
    \/ \E l \in Limits, rt \in Routes : NewInterceptor(l, rt[1], rt[2])
    \/ \E v \in ContentLengths : BeforeError /\ HandlerSetHeader("Content-Length", v, FALSE)
    \/ \E st \in Statuses : BeforeError /\ HandlerWriteHeader(st, FALSE)
    \/ \E b \in Chunks : calls < MaxErrorCalls /\ HandlerWrite(b)
    \/ \E e \in UpstreamErrors : RoundTripFails(e)
    \/ FinalFlush

(* A reload while requests are in flight, with the transport cache: the file
   is rewritten with one new snapshot, v2, or with a content LoadConfiguration
   refuses, while v1 is being served. A request
   goes through DynamicProxyHandler, handleLocationMatch and ServeProxy as
   above; its round trip is Caronte.RoundTrip calling GetTransport on
   dito.TransportCache. *)

SnapshotV1 == ConfigA
SnapshotV2 == ConfigC

InitReload == builtUnder = [k \in {} |-> NoConfig]

\* Caronte.RoundTrip: GetTransport up to c.transports.Load(key)
RoundTripLoad(r) ==
    /\ req[r].pc = "proxy"
    /\ LET transportConfig == EffectiveTransport(req[r].proxyLocation, currentConfig.Transport)
           key == generateTransportKey(transportConfig)
       IN  req' = [req EXCEPT ![r].transportConfig = transportConfig,
                              ![r].pc = IF key \in DOMAIN transports THEN "done" ELSE "create"]
    /\ UNCHANGED <<currentConfig, ditoConfig, file, watch>>
    /\ UNCHANGED <<rliVars, tcVars, whVars, bodyVars, mwVars, bootVars, errVars, rmVars, reloadVars, lbVars, ahVars, respVars, limVars, dirVars, cwVars>>

\* GetTransport after a miss: createTransportFromConfig, then LoadOrStore
RoundTripStore(r, filesOK) ==
    /\ req[r].pc = "create"
    /\ IF req[r].transportConfig.CertFile = "" THEN filesOK ELSE TRUE
    /\ req' = [req EXCEPT ![r].pc = "done"]
    /\ LET key == generateTransportKey(req[r].transportConfig)
       IN  IF filesOK /\ key \notin DOMAIN transports
           THEN /\ transports' = [k \in DOMAIN transports \cup {key} |->
                                     IF k = key THEN nextTransport + 1 ELSE transports[k]]
                /\ builtUnder' = [k \in DOMAIN builtUnder \cup {key} |->
                                     IF k = key THEN req[r].matched ELSE builtUnder[k]]
           ELSE UNCHANGED <<transports, builtUnder>>
    /\ nextTransport' = IF filesOK THEN nextTransport + 1 ELSE nextTransport
    /\ UNCHANGED <<currentConfig, ditoConfig, file, watch>>
    /\ UNCHANGED <<tc, cleared>>
    /\ UNCHANGED <<rliVars, whVars, bodyVars, mwVars, bootVars, errVars, rmVars, lbVars, ahVars, respVars, limVars, dirVars, cwVars>>

NextReload ==
    \/ FileWrite(SnapshotV2, TRUE)
    \/ FileWrite(BrokenConfig, FALSE)
    \/ WatchConfigStat
    \/ WatchConfigLoad
    \/ WatchConfigCompare
    \/ UpdateComponents
    \/ DitoUpdateConfig
    \/ \E r \in Requests, path \in RequestPaths : DynamicProxyHandler(r, path)
    \/ \E r \in Requests : handleLocationMatch(r)
    \/ \E r \in Requests : ServeProxy(r)
    \/ \E r \in Requests : RoundTripLoad(r)
    \/ \E r \in Requests, filesOK \in BOOLEAN : RoundTripStore(r, filesOK)

-----------------------------------------------------------------------------
(* writer.LimitedBuffer on its own: one buffer, the calls made on it one
   after another, and a clone that receives the writes the original
   receives after Clone. bytes.Buffer is its slice and its read offset; the
   unread part is buf[off:]. *)

BufferCaps == {0, MaxBufferCap - 1, MaxBufferCap}
BufferInputs == {"", "a", "bc", "defg"}
ReadSizes == {0, 1, MaxBufferCap}
WriterRooms == {1, MaxBufferCap + 1}

Unread(bb) == SubSeq(bb.buf, bb.off + 1, Len(bb.buf))
BytesBuffer(data) == [buf |-> data, off |-> 0]
Drop(s, n) == SubSeq(s, n + 1, Len(s))
Take(s, n) == SubSeq(s, 1, n)

NewLimitedBuffer(maxSize) ==
    [buffer |-> BytesBuffer(""), maxSize |-> maxSize, written |-> 0,
     overflow |-> FALSE, totalSize |-> 0]

\* Write without the clamp to what is available
LimitedBufferWrite_NoClamp(b0, p) ==
    [lb |-> [b0 EXCEPT !.totalSize = @ + Len(p),
                       !.buffer = BytesBuffer(Unread(@) \o p),
                       !.written = @ + Len(p)],
     n |-> Len(p), err |-> "nil"]

\* LimitedBuffer.Write: the buffer after the call, n and err
LimitedBufferWrite(b0, p) ==
    LET b == [b0 EXCEPT !.totalSize = @ + Len(p)]
    IN  IF b.maxSize = 0
        THEN [lb |-> [b EXCEPT !.overflow = TRUE], n |-> 0, err |-> "ErrBufferFull"]
        ELSE IF b.written + Len(p) > b.maxSize
        THEN LET available == b.maxSize - b.written
             IN  IF available <= 0
                 THEN [lb |-> [b EXCEPT !.overflow = TRUE], n |-> 0, err |-> "ErrBufferFull"]
                 ELSE [lb |-> [b EXCEPT !.buffer = BytesBuffer(Unread(@) \o Take(p, available)),
                                        !.written = @ + available,
                                        !.overflow = TRUE],
                       n |-> available, err |-> "ErrBufferFull"]
        ELSE [lb |-> [b EXCEPT !.buffer = BytesBuffer(Unread(@) \o p),
                               !.written = @ + Len(p)],
              n |-> Len(p), err |-> "nil"]

\* bytes.Buffer.Read into a slice of size bytes, as LimitedBuffer.Read calls it
LimitedBufferRead(b, size) ==
    IF Len(b.buffer.buf) <= b.buffer.off
    THEN [lb |-> [b EXCEPT !.buffer = BytesBuffer("")], n |-> 0,
          err |-> IF size = 0 THEN "nil" ELSE "EOF"]
    ELSE LET n == Min(size, Len(Unread(b.buffer)))
         IN  [lb |-> [b EXCEPT !.buffer.off = @ + n], n |-> n, err |-> "nil"]

\* LimitedBuffer.Reset
LimitedBufferReset(b) ==
    [lb |-> [b EXCEPT !.buffer = BytesBuffer(""), !.written = 0,
                      !.overflow = FALSE, !.totalSize = 0],
     n |-> 0, err |-> "nil"]

\* LimitedBuffer.WriteTo a writer that takes room bytes
LimitedBufferWriteTo(b, room) ==
    LET data == Unread(b.buffer)
        m == Min(room, Len(data))
        after == IF m = Len(data) THEN BytesBuffer("")
                 ELSE [b.buffer EXCEPT !.off = @ + m]
    IN  [lb |-> [b EXCEPT !.buffer = after, !.written = Len(Unread(after))],
         n |-> m, err |-> IF m = Len(data) THEN "nil" ELSE "ErrShortWrite"]

\* LimitedBuffer.Truncate
LimitedBufferTruncate(b, n0) ==
    LET n == IF n0 < 0 THEN 0 ELSE n0
        data == Unread(b.buffer)
    IN  IF n >= b.written \/ n >= Len(data)
        THEN [lb |-> b, n |-> 0, err |-> "nil"]
        ELSE [lb |-> [b EXCEPT !.buffer = BytesBuffer(Take(data, n)), !.written = n],
              n |-> 0, err |-> "nil"]

\* LimitedBuffer.Grow
LimitedBufferGrow(b, n) ==
    [lb |-> b, n |-> 0,
     err |-> IF b.written + n > b.maxSize THEN "ErrBufferOverflow" ELSE "nil"]

\* LimitedBuffer.ReadFrom a reader holding src
LimitedBufferReadFrom(b, src) ==
    LET available == b.maxSize - b.written
    IN  IF available <= 0
        THEN [lb |-> [b EXCEPT !.overflow = TRUE], n |-> 0, err |-> "ErrBufferFull"]
        ELSE LET n == Min(available, Len(src))
                 extraN == IF Len(src) > n THEN 1 ELSE 0
                 b1 == [b EXCEPT !.buffer = BytesBuffer(Unread(@) \o Take(src, n)),
                                 !.written = @ + n,
                                 !.totalSize = @ + n]
             IN  IF n = available /\ extraN > 0
                 THEN [lb |-> [b1 EXCEPT !.overflow = TRUE, !.totalSize = @ + extraN],
                       n |-> n, err |-> "ErrBufferFull"]
                 ELSE [lb |-> b1, n |-> n, err |-> "nil"]

\* LimitedBuffer.Clone
Clone(b) ==
    LET data == Unread(b.buffer)
    IN  [buffer |-> BytesBuffer(data), maxSize |-> b.maxSize,
         written |-> Len(data),
         overflow |-> Len(data) >= b.maxSize /\ b.maxSize > 0,
         totalSize |-> b.totalSize]

NoReturn == [op |-> "none", n |-> 0, err |-> "nil", p |-> "", calls |-> 0,
             before |-> NewLimitedBuffer(0), cloned |-> FALSE]
IdleReader == [pc |-> "idle", size |-> 0, sawOff |-> 0, got |-> "", n |-> 0, err |-> "nil"]

InitLimitedBuffer ==
    /\ lb = NewLimitedBuffer(0)
    /\ clone = NewLimitedBuffer(0)
    /\ lbRet = NoReturn
    /\ rd = [g \in Goroutines |-> IdleReader]
    /\ lbHist = [accepted |-> 0, delivered |-> 0, snapshot |-> ""]

LBOthers == UNCHANGED <<rliVars, cfgVars, tcVars, whVars, bodyVars, mwVars, bootVars, errVars, rmVars, reloadVars, ahVars, respVars, limVars, dirVars, cwVars>>

\* NewLimitedBuffer(maxSize)
LBNew(maxSize) ==
    /\ lbRet.op = "none"
    /\ lb' = NewLimitedBuffer(maxSize)
    /\ lbRet' = [NoReturn EXCEPT !.op = "New"]
    /\ UNCHANGED <<clone, rd, lbHist>>
    /\ LBOthers

InUse == lbRet.op # "none" /\ lbRet.calls < MaxBufferOps

\* one call on the buffer: the record r is what the operation yields
LBCall(op, p, r) ==
    /\ lb' = r.lb
    /\ lbRet' = [lbRet EXCEPT !.op = op, !.n = r.n, !.err = r.err, !.p = p,
                              !.calls = @ + 1, !.before = lb]

\* lb.Write(p), and clone.Write(p) once there is a clone
LBWrite(p) ==
    /\ InUse
    /\ LBCall("Write", p, LimitedBufferWrite(lb, p))
    /\ clone' = IF lbRet.cloned THEN LimitedBufferWrite(clone, p).lb ELSE clone
    /\ UNCHANGED <<rd, lbHist>>
    /\ LBOthers

LBRead(size) ==
    /\ InUse /\ ~lbRet.cloned
    /\ LBCall("Read", "", LimitedBufferRead(lb, size))
    /\ UNCHANGED <<clone, rd, lbHist>>
    /\ LBOthers

LBReset ==
    /\ InUse /\ ~lbRet.cloned
    /\ LBCall("Reset", "", LimitedBufferReset(lb))
    /\ UNCHANGED <<clone, rd, lbHist>>
    /\ LBOthers

LBWriteTo(room) ==
    /\ InUse /\ ~lbRet.cloned
    /\ LBCall("WriteTo", "", LimitedBufferWriteTo(lb, room))
    /\ UNCHANGED <<clone, rd, lbHist>>
    /\ LBOthers

LBTruncate(n) ==
    /\ InUse /\ ~lbRet.cloned
    /\ LBCall("Truncate", "", LimitedBufferTruncate(lb, n))
    /\ UNCHANGED <<clone, rd, lbHist>>
    /\ LBOthers

LBGrow(n) ==
    /\ InUse /\ ~lbRet.cloned
    /\ LBCall("Grow", "", LimitedBufferGrow(lb, n))
    /\ UNCHANGED <<clone, rd, lbHist>>
    /\ LBOthers

LBReadFrom(src) ==
    /\ InUse /\ ~lbRet.cloned
    /\ LBCall("ReadFrom", src, LimitedBufferReadFrom(lb, src))
    /\ UNCHANGED <<clone, rd, lbHist>>
    /\ LBOthers

\* clone := lb.Clone()
LBClone ==
    /\ InUse /\ ~lbRet.cloned
    /\ clone' = Clone(lb)
    /\ lbRet' = [lbRet EXCEPT !.op = "Clone", !.cloned = TRUE, !.before = lb]
    /\ UNCHANGED <<lb, rd, lbHist>>
    /\ LBOthers

NextBuffer ==
    \/ \E c \in BufferCaps : LBNew(c)
    \/ \E p \in BufferInputs : LBWrite(p)
    \/ \E size \in ReadSizes : LBRead(size)
    \/ LBReset
    \/ \E room \in WriterRooms : LBWriteTo(room)
    \/ \E n \in {-1, 1} : LBTruncate(n)
    \/ \E n \in {1, MaxBufferCap} : LBGrow(n)
    \/ \E src \in BufferInputs : LBReadFrom(src)
    \/ LBClone

-----------------------------------------------------------------------------
(* writer.LimitedBuffer under concurrent callers. Write takes mu.Lock and is
   one step; Read takes mu.RLock, which any number of goroutines hold at
   once, and calls bytes.Buffer.Read, which copies buf[off:] out and then
   advances off. Two goroutines inside Read race on off: "b.off += n" is a
   load and a store, and the load may be the one the copy already made. *)

Readers == {g \in Goroutines : rd[g].pc # "idle"}

\* off is beyond the slice: String and Bytes would slice out of range
Corrupt == lb.buffer.off > Len(lb.buffer.buf)

\* lb.Write(p): Lock, the whole of Write, Unlock
ConcWrite(p) ==
    /\ InUse /\ Readers = {} /\ ~Corrupt
    /\ LBCall("Write", p, LimitedBufferWrite(lb, p))
    /\ lbHist' = [lbHist EXCEPT !.accepted = @ + LimitedBufferWrite(lb, p).n]
    /\ UNCHANGED <<clone, rd>>
    /\ LBOthers

\* lb.Read(p) with len(p) = size: mu.RLock()
ReadRLock(g, size) ==
    /\ InUse /\ rd[g].pc = "idle"
    /\ rd' = [rd EXCEPT ![g] = [IdleReader EXCEPT !.pc = "copy", !.size = size]]
    /\ lbRet' = [lbRet EXCEPT !.calls = @ + 1]
    /\ UNCHANGED <<lb, clone, lbHist>>
    /\ LBOthers

\* bytes.Buffer.Read: the empty check, or n = copy(p, b.buf[b.off:])
ReadCopy(g) ==
    /\ rd[g].pc = "copy"
    /\ IF Len(lb.buffer.buf) <= lb.buffer.off
       THEN /\ lb' = [lb EXCEPT !.buffer = BytesBuffer("")]
            /\ rd' = [rd EXCEPT ![g].pc = "unlock",
                                ![g].err = IF rd[g].size = 0 THEN "nil" ELSE "EOF"]
       ELSE /\ rd' = [rd EXCEPT ![g].pc = "advance",
                                ![g].sawOff = lb.buffer.off,
                                ![g].n = Min(rd[g].size, Len(Unread(lb.buffer))),
                                ![g].got = Take(Unread(lb.buffer), Min(rd[g].size, Len(Unread(lb.buffer))))]
            /\ lb' = lb
    /\ UNCHANGED <<clone, lbRet, lbHist>>
    /\ LBOthers

\* bytes.Buffer.Read: b.off += n
ReadAdvance(g, fresh) ==
    /\ rd[g].pc = "advance"
    /\ lb' = [lb EXCEPT !.buffer.off = (IF fresh THEN @ ELSE rd[g].sawOff) + rd[g].n]
    /\ rd' = [rd EXCEPT ![g].pc = "unlock"]
    /\ UNCHANGED <<clone, lbRet, lbHist>>
    /\ LBOthers

\* lb.Read(p): mu.RUnlock() and return
ReadRUnlock(g) ==
    /\ rd[g].pc = "unlock"
    /\ rd' = [rd EXCEPT ![g].pc = "idle"]
    /\ lbRet' = [lbRet EXCEPT !.op = "Read", !.n = rd[g].n, !.err = rd[g].err, !.p = rd[g].got]
    /\ lbHist' = [lbHist EXCEPT !.delivered = @ + rd[g].n]
    /\ UNCHANGED <<lb, clone>>
    /\ LBOthers

\* lb.String(): RLock, string(buf[off:]), RUnlock
ConcString ==
    /\ InUse /\ ~Corrupt
    /\ lbHist' = [lbHist EXCEPT !.snapshot = Unread(lb.buffer)]
    /\ UNCHANGED <<lb, clone, lbRet, rd>>
    /\ LBOthers

NextBufferConc ==
    \/ \E c \in BufferCaps : LBNew(c)
    \/ \E p \in BufferInputs : ConcWrite(p)
    \/ \E g \in Goroutines, size \in ReadSizes : ReadRLock(g, size)
    \/ \E g \in Goroutines : ReadCopy(g)
    \/ \E g \in Goroutines, fresh \in BOOLEAN : ReadAdvance(g, fresh)
    \/ \E g \in Goroutines : ReadRUnlock(g)
    \/ ConcString

-----------------------------------------------------------------------------
(* transport.Caronte.AddHeaders on one request, called once and then once
   more on its own result. A request's Header is a map from canonical
   names to value lists; Del and Set canonicalise the name they are given,
   and contains compares the configured names as they are written. *)

XForwardedFor == "X-Forwarded-For"
XForwardedProto == "X-Forwarded-Proto"
XForwardedHost == "X-Forwarded-Host"

\* textproto.CanonicalMIMEHeaderKey on the names used here
CanonicalMIMEHeaderKey(k) ==
    IF k = "x-forwarded-for" THEN XForwardedFor
    ELSE IF k = "x-remove-header" THEN "X-Remove-Header"
    ELSE k

HeaderDel(h, k) == [n \in DOMAIN h \ {CanonicalMIMEHeaderKey(k)} |-> h[n]]
HeaderSet(h, k, v) ==
    [n \in DOMAIN h \cup {CanonicalMIMEHeaderKey(k)} |->
        IF n = CanonicalMIMEHeaderKey(k) THEN <<v>> ELSE h[n]]

contains(slice, item) == \E i \in 1..Len(slice) : slice[i] = item

RECURSIVE DelAll(_, _)
DelAll(h, headers) ==
    IF headers = <<>> THEN h ELSE DelAll(HeaderDel(h, Head(headers)), Tail(headers))

RECURSIVE SetAll(_, _, _)
SetAll(h, additional, names) ==
    IF names = {} THEN h
    ELSE LET k == CHOOSE n \in names : TRUE
         IN  SetAll(HeaderSet(h, k, additional[k]), additional, names \ {k})

EmptyHeader == [n \in {} |-> <<>>]
NoAdditional == [n \in {} |-> ""]

ExcludedHeaderLists ==
    {<<>>, <<"X-Remove-Header">>, <<"x-remove-header">>, <<XForwardedFor>>,
     <<"x-forwarded-for">>, <<"X-Custom-Header">>,
     <<XForwardedFor, XForwardedProto, XForwardedHost>>}
AdditionalHeaderMaps ==
    {NoAdditional, [n \in {"X-Custom-Header"} |-> "CustomValue"],
     [n \in {"Host"} |-> "backend.internal"]}
IncomingHeaders ==
    {EmptyHeader, [n \in {"X-Remove-Header"} |-> <<"RemoveMe">>],
     [n \in {XForwardedFor} |-> <<"203.0.113.7">>],
     [n \in {"X-Custom-Header"} |-> <<"FromClient">>]}

\* the request as the director leaves it
OutgoingRequest(h) ==
    [Header |-> h, Host |-> "upstream.example", RemoteAddr |-> "192.0.2.1:4711",
     Scheme |-> "http"]

\* Caronte.AddHeaders(req) under a location
AddHeaders(location, req0) ==
    LET h1 == DelAll(req0.Header, location.ExcludedHeaders)
        h2 == SetAll(h1, location.AdditionalHeaders, DOMAIN location.AdditionalHeaders)
        host == IF "Host" \in DOMAIN location.AdditionalHeaders
                THEN location.AdditionalHeaders["Host"] ELSE req0.Host
        h3 == IF ~contains(location.ExcludedHeaders, XForwardedFor)
              THEN IF XForwardedFor \in DOMAIN h2
                   THEN HeaderSet(h2, XForwardedFor, h2[XForwardedFor][1] \o ", " \o req0.RemoteAddr)
                   ELSE HeaderSet(h2, XForwardedFor, req0.RemoteAddr)
              ELSE h2
        h4 == IF ~contains(location.ExcludedHeaders, XForwardedProto)
              THEN HeaderSet(h3, XForwardedProto, req0.Scheme) ELSE h3
        h5 == IF ~contains(location.ExcludedHeaders, XForwardedHost)
              THEN HeaderSet(h4, XForwardedHost, host) ELSE h4
    IN  [req0 EXCEPT !.Header = h5, !.Host = host]

NoRewrite ==
    [pc |-> "start",
     location |-> [ExcludedHeaders |-> <<>>, AdditionalHeaders |-> NoAdditional],
     incoming |-> OutgoingRequest(EmptyHeader),
     once |-> OutgoingRequest(EmptyHeader),
     req |-> OutgoingRequest(EmptyHeader)]

InitHeaders == ah = NoRewrite

AHOthers == UNCHANGED <<rliVars, cfgVars, tcVars, whVars, bodyVars, mwVars, bootVars, errVars, rmVars, reloadVars, lbVars, respVars, limVars, dirVars, cwVars>>

\* t.AddHeaders(req) as RoundTrip calls it
AddHeadersOnce(excluded, additional, h) ==
    /\ ah.pc = "start"
    /\ LET location == [ExcludedHeaders |-> excluded, AdditionalHeaders |-> additional]
           req0 == OutgoingRequest(h)
       IN  ah' = [pc |-> "once", location |-> location, incoming |-> req0,
                  once |-> AddHeaders(location, req0),
                  req |-> AddHeaders(location, req0)]
    /\ AHOthers

\* t.AddHeaders(req) on the request it has already rewritten
AddHeadersAgain ==
    /\ ah.pc = "once"
    /\ ah' = [ah EXCEPT !.pc = "twice", !.req = AddHeaders(ah.location, ah.req)]
    /\ AHOthers

NextHeaders ==
    \/ \E excluded \in ExcludedHeaderLists, additional \in AdditionalHeaderMaps,
          h \in IncomingHeaders : AddHeadersOnce(excluded, additional, h)
    \/ AddHeadersAgain

-----------------------------------------------------------------------------
(* The ModifyResponse function of the reverse proxy (createResponseModifier)
   on one upstream response. *)

SecurityHeaders ==
    [n \in {"X-Content-Type-Options", "X-Frame-Options", "Referrer-Policy",
            "Strict-Transport-Security"} |->
        IF n = "X-Content-Type-Options" THEN "nosniff"
        ELSE IF n = "X-Frame-Options" THEN "DENY"
        ELSE IF n = "Referrer-Policy" THEN "strict-origin-when-cross-origin"
        ELSE "max-age=31536000; includeSubDomains"]

\* what an upstream sends for a security header: nothing, or a value of its own
UpstreamValues(n) ==
    IF n = "X-Content-Type-Options" THEN {"", "nosniff"}
    ELSE IF n = "X-Frame-Options" THEN {"", "SAMEORIGIN", "DENY"}
    ELSE IF n = "Referrer-Policy" THEN {"", "no-referrer"}
    ELSE {"", "max-age=600"}

UpstreamHeaders ==
    {[n \in {k \in DOMAIN v : v[k] # ""} |-> <<v[n]>>] :
        v \in {f \in [DOMAIN SecurityHeaders -> {"", "nosniff", "SAMEORIGIN", "DENY", "no-referrer", "max-age=600"}] :
                  \A n \in DOMAIN f : f[n] \in UpstreamValues(n)}}

RequestIDs == {"", "req-1", "req-2"}

HeaderGet(h, k) ==
    IF CanonicalMIMEHeaderKey(k) \in DOMAIN h /\ h[CanonicalMIMEHeaderKey(k)] # <<>>
    THEN h[CanonicalMIMEHeaderKey(k)][1] ELSE ""

\* addSecurityHeaders(resp)
addSecurityHeaders(h) ==
    LET h1 == HeaderSet(h, "X-Content-Type-Options", SecurityHeaders["X-Content-Type-Options"])
        h2 == HeaderSet(h1, "X-Frame-Options", SecurityHeaders["X-Frame-Options"])
        h3 == HeaderSet(h2, "Referrer-Policy", SecurityHeaders["Referrer-Policy"])
    IN  IF HeaderGet(h3, "Strict-Transport-Security") = ""
        THEN HeaderSet(h3, "Strict-Transport-Security", SecurityHeaders["Strict-Transport-Security"])
        ELSE h3

\* the function createResponseModifier returns
ResponseModifier(h, requestID, timed) ==
    LET h1 == addSecurityHeaders(h)
        h2 == IF requestID # "" THEN HeaderSet(h1, "X-Request-ID", requestID) ELSE h1
    IN  IF timed THEN HeaderSet(h2, "X-Response-Time", "0.000ms") ELSE h2

InitResponse == resp = [pc |-> "upstream", upstream |-> EmptyHeader, Header |-> EmptyHeader]

\* ReverseProxy calls ModifyResponse on the response the upstream returned
ModifyResponse(h, requestID, timed) ==
    /\ resp.pc = "upstream"
    /\ resp' = [pc |-> "modified", upstream |-> h, Header |-> ResponseModifier(h, requestID, timed)]
    /\ UNCHANGED <<rliVars, cfgVars, tcVars, whVars, bodyVars, mwVars, bootVars, errVars, rmVars, reloadVars, lbVars, ahVars, limVars, dirVars, cwVars>>

NextResponse ==
    \E h \in UpstreamHeaders, requestID \in RequestIDs, timed \in BOOLEAN :
        ModifyResponse(h, requestID, timed)

-----------------------------------------------------------------------------
(* The response body limits from the configuration file to the writer of a
   request: LoadConfiguration validates what it parsed and fills in the
   defaults, handleLocationMatch asks the matched location for its effective
   limit and puts the interceptor in front of the writer when it is
   positive, and the handler then writes its response call by call. *)

GlobalLimits == {-1, 0, MaxLimit, BigLimit}
LocationLimits == {-1, 0, 1, MaxLimit}

\* what yaml.Unmarshal yields for the two settings; an omitted one is 0
ParsedLimits(global, route) ==
    [ResponseLimits |-> [MaxResponseBodySize |-> global],
     Locations |-> <<[Path |-> "^/big", DisableResponseBuffering |-> FALSE,
                      MaxResponseBodySize |-> route]>>]

\* validateAndSetDefaults without the default for the global limit
validateAndSetDefaults_NoDefault(config) ==
    [config |-> config,
     err |-> IF config.ResponseLimits.MaxResponseBodySize < 0
             THEN "global max_response_body_size cannot be negative"
             ELSE IF \E i \in 1..Len(config.Locations) :
                        config.Locations[i].MaxResponseBodySize < 0
             THEN "location: max_response_body_size cannot be negative"
             ELSE "nil"]

\* validateAndSetDefaults: the configuration with its defaults, and the error
validateAndSetDefaults(config) ==
    validateAndSetDefaults_NoDefault(
        IF config.ResponseLimits.MaxResponseBodySize = 0
        THEN [config EXCEPT !.ResponseLimits.MaxResponseBodySize = 100 * 1024 * 1024]
        ELSE config)

\* the global limit whatever the location says
GetEffectiveMaxResponseBodySize_GlobalOnly(lc, globalLimit) == globalLimit

\* LocationConfig.GetEffectiveMaxResponseBodySize
GetEffectiveMaxResponseBodySize(lc, globalLimit) ==
    IF lc.MaxResponseBodySize > 0 THEN lc.MaxResponseBodySize ELSE globalLimit

InitLimits ==
    lim = [pc |-> "start", parsed |-> ParsedLimits(0, 0), config |-> ParsedLimits(0, 0),
           err |-> "nil", limit |-> 0]

\* LoadConfiguration on a file with these two settings: the snapshot is
\* published when validation passes
LoadLimits(global, route) ==
    /\ lim.pc = "start"
    /\ LET v == validateAndSetDefaults(ParsedLimits(global, route))
       IN  lim' = IF v.err = "nil"
                  THEN [lim EXCEPT !.pc = "published", !.parsed = ParsedLimits(global, route),
                                   !.config = v.config]
                  ELSE [lim EXCEPT !.pc = "refused", !.parsed = ParsedLimits(global, route),
                                   !.err = v.err]
    /\ UNCHANGED <<rliVars, cfgVars, tcVars, whVars, bodyVars, mwVars, bootVars, errVars, rmVars, reloadVars, lbVars, ahVars, respVars, dirVars, cwVars>>

\* handleLocationMatch up to the call of the handler chain
LimitsHandleLocationMatch(path) ==
    /\ lim.pc = "published"
    /\ phase = "new"
    /\ LET location == lim.config.Locations[1]
           limit == GetEffectiveMaxResponseBodySize(location,
                        lim.config.ResponseLimits.MaxResponseBodySize)
       IN  /\ lim' = [lim EXCEPT !.pc = "serving", !.limit = limit]
           /\ sink' = createResponseWriter(location)
           /\ IF limit > 0
              THEN /\ rli' = newResponseLimitInterceptor(limit, path)
                   /\ phase' = "open"
              ELSE /\ rli' = rli
                   /\ phase' = "sink"
    /\ UNCHANGED <<hdr, tgt, calls, seen, accepted, lastRet, rejected, afterLimit>>
    /\ UNCHANGED <<cfgVars, tcVars, whVars, bodyVars, mwVars, bootVars, errVars, rmVars, reloadVars, lbVars, ahVars, respVars, dirVars, cwVars>>


NextLimits ==
    \/ \E global \in GlobalLimits, route \in LocationLimits : LoadLimits(global, route)
    \/ LimitsHandleLocationMatch("/big")
    \/ \E v \in SinkContentLengths \ {""} : BodySetContentLength(v)
    \/ \E s \in Statuses : BodyWriteHeader(s)
    \/ \E b \in Chunks : BodyWrite(b)
    \/ BodyFlush
    \/ FinalFlush

-----------------------------------------------------------------------------
(* The Director of the reverse proxy (createDirector) on one request that a
   location has matched. A location's Path is a regular expression; the
   patterns here are a literal, anchored at the start with ^ or not. *)

StartsWith(s, prefix) == Len(prefix) <= Len(s) /\ SubSeq(s, 1, Len(prefix)) = prefix
EndsWith(s, suffix) ==
    Len(suffix) <= Len(s) /\ SubSeq(s, Len(s) - Len(suffix) + 1, Len(s)) = suffix

\* strings.TrimPrefix and strings.TrimSuffix
TrimPrefix(s, prefix) == IF StartsWith(s, prefix) THEN Drop(s, Len(prefix)) ELSE s
TrimSuffix(s, suffix) == IF EndsWith(s, suffix) THEN Take(s, Len(s) - Len(suffix)) ELSE s

\* the literal of a pattern, and where the pattern lets it match
Literal(pattern) == TrimPrefix(pattern, "^")
Anchored(pattern) == StartsWith(pattern, "^")

\* regexp.MatchString for these patterns
RegexpMatchString(pattern, path) ==
    IF Anchored(pattern) THEN StartsWith(path, Literal(pattern))
    ELSE \E i \in 0..Len(path) : StartsWith(Drop(path, i), Literal(pattern))

\* joinPaths
joinPaths(base, additional) == TrimSuffix(base, "/") \o "/" \o TrimPrefix(additional, "/")

\* the path the function createDirector returns gives the outgoing request
DirectorPath(targetPath, location, originalPath) ==
    IF location.ReplacePath THEN targetPath
    ELSE joinPaths(targetPath, TrimPrefix(originalPath, location.Path))

DirectorPatterns == {"^/api", "/api", "^/api/", "^/"}
TargetPaths == {"", "/", "/v1", "/v1/"}
OriginalPaths == {"/api", "/api/", "/api/x", "/api/x/y", "/x/api"}

InitDirector ==
    fwd = [pc |-> "matched", location |-> [Path |-> "", ReplacePath |-> FALSE],
           targetPath |-> "", originalPath |-> "", Path |-> ""]

\* the Director runs on the request of a location that matched its path
Director(pattern, replacePath, targetPath, originalPath) ==
    /\ fwd.pc = "matched"
    /\ RegexpMatchString(pattern, originalPath)
    /\ LET location == [Path |-> pattern, ReplacePath |-> replacePath]
       IN  fwd' = [pc |-> "directed", location |-> location, targetPath |-> targetPath,
                   originalPath |-> originalPath,
                   Path |-> DirectorPath(targetPath, location, originalPath)]
    /\ UNCHANGED <<rliVars, cfgVars, tcVars, whVars, bodyVars, mwVars, bootVars, errVars, rmVars, reloadVars, lbVars, ahVars, respVars, limVars, cwVars>>

NextDirector ==
    \E pattern \in DirectorPatterns, replacePath \in BOOLEAN,
       targetPath \in TargetPaths, originalPath \in OriginalPaths :
        Director(pattern, replacePath, targetPath, originalPath)

-----------------------------------------------------------------------------
(* Specifications: every part starts in its initial state *)

Init ==
    /\ InitWriters /\ InitConfig /\ InitTransportCache /\ InitWriteHeader
    /\ InitMiddleware
    /\ InitBoot
    /\ InitUpstreamErr
    /\ InitReload
    /\ InitLimitedBuffer
    /\ InitHeaders
    /\ InitResponse
    /\ InitLimits
    /\ InitDirector
    /\ InitConcWrite

Spec == Init /\ [][NextWriters]_vars

SpecOrdered == Init /\ [][NextOrdered]_vars

SpecBody == Init /\ [][NextBody]_vars

SpecBuffering == Init /\ [][NextBuffering]_vars

SpecConcWrite == Init /\ [][NextConcWrite]_vars

SpecMiddleware == Init /\ [][NextMiddleware]_vars

SpecBoot == Init /\ [][NextBoot]_vars

SpecError == Init /\ [][NextError]_vars

SpecReload == Init /\ [][NextReload]_vars

SpecBuffer == Init /\ [][NextBuffer]_vars

SpecBufferConc == Init /\ [][NextBufferConc]_vars

SpecHeaders == Init /\ [][NextHeaders]_vars

SpecResponse == Init /\ [][NextResponse]_vars

SpecLimits == Init /\ [][NextLimits]_vars

SpecDirector == Init /\ [][NextDirector]_vars

SpecConfig == Init /\ [][NextConfig]_vars

SpecTransport == Init /\ [][NextTransport]_vars

SpecSink == Init /\ [][NextSink]_vars

-----------------------------------------------------------------------------
(* Properties of the writer stack *)

TheLimitErrorBody == LimitErrorBody(rli.maxSize, rli.path)

\* how many of the writes the client received are the 413 JSON
LimitErrorBodies == Cardinality({i \in DOMAIN tgt.writes : tgt.writes[i] = TheLimitErrorBody})

\* every Content-Length the model meets is one ParseInt knows
ParseDomainOK ==
    LET cl == HGet(hdr, "Content-Length") IN cl \in {"", "abc"} \/ ParseInt(cl).ok

\* C1: on a route with cap L > 0 the client's body is at most L bytes long, or
\* it is exactly the 413 JSON body, whatever the upstream declared and however
\* the body was split into writes.
C1_BodyWithinCapOr413 ==
    phase # "new" =>
        \/ Len(tgt.body) <= rli.maxSize
        \/ tgt.body = TheLimitErrorBody

\* a completed request whose response was rejected: the client's body is the
\* 413 JSON, which is longer than the cap
C1_Witness ==
    /\ phase = "done"
    /\ rejected
    /\ tgt.body = TheLimitErrorBody
    /\ Len(tgt.body) > rli.maxSize

\* C2: for a response that never exceeds the cap, when the final Flush has
\* returned the client has every byte the interceptor accepted, in order, and
\* the interceptor's buffer is empty.
C2_AcceptedBytesForwarded ==
    (phase = "done" /\ ~rli.limitExceeded) =>
        /\ tgt.body = accepted
        /\ rli.buffer = ""

\* the JSON document {"error":{"code":413,"message":...,"details":{"limit_bytes":
\* L,"path":p}}} whose path member is the string p
LimitErrorJSON(maxSize, path) ==
    "{\"error\":{\"code\":" \o ToString(StatusRequestEntityTooLarge)
        \o ",\"message\":\"" \o LimitMessage
        \o "\",\"details\":{\"limit_bytes\":" \o ToString(maxSize)
        \o ",\"path\":\"" \o JSONEscape(path) \o "\"}}}"

\* C3: when the declared Content-Length is over the cap, the client has status
\* 413, exactly the four headers of the error response, with Content-Length the
\* byte length of the body, and the body is the 413 JSON whose limit_bytes is
\* the cap and whose path is the request path.
C3_DeclaredOverLimitIs413 ==
    (rejected /\ ContentLengthOver(World)) =>
        /\ tgt.statusWrites = <<StatusRequestEntityTooLarge>>
        /\ DOMAIN tgt.headers =
               {"Content-Type", "X-Content-Type-Options", "Cache-Control", "Content-Length"}
        /\ tgt.headers["Content-Type"] = "application/json; charset=utf-8"
        /\ tgt.headers["X-Content-Type-Options"] = "nosniff"
        /\ tgt.headers["Cache-Control"] = "no-cache, no-store, must-revalidate"
        /\ tgt.headers["Content-Length"] = ToString(Len(tgt.body))
        /\ tgt.body = LimitErrorJSON(rli.maxSize, rli.path)

\* C4: once the limit has been exceeded, no step adds a byte to the client's body.
C4_NothingAfterLimit == [][rli.limitExceeded => tgt'.body = tgt.body]_vars

\* a mid-stream overflow after the headers went out, followed by further calls
C4_Witness ==
    /\ rli.limitExceeded
    /\ ~rejected
    /\ afterLimit >= 2
    /\ phase = "done"

C6_ErrorBodyExactlyOnce ==
    /\ rejected => LimitErrorBodies = 1
    /\ ~rejected => LimitErrorBodies = 0

\* a rejection followed by two more calls, the final Flush among them
C6_Witness ==
    /\ rejected
    /\ afterLimit >= 2
    /\ phase = "done"

-----------------------------------------------------------------------------
(* Properties of the configuration store *)

\* the requests that have used a route entry
Routed == {r \in Requests : req[r].pc \in {"handler", "proxy", "done"}}

\* C7: a request matched under snapshot A uses A's route entry and A's
\* transport settings for its whole lifetime: it never fails on the index, the
\* location handleLocationMatch and ServeProxy take is the matched one, and
\* the transport settings RoundTrip takes are those of the matched snapshot.
C7_RequestKeepsItsSnapshot ==
    \A r \in Requests :
        /\ req[r].pc # "panic"
        /\ r \in Routed =>
              req[r].location = req[r].matched.Locations[req[r].locationIndex]
        /\ req[r].pc \in {"proxy", "done"} =>
              req[r].proxyLocation = req[r].matched.Locations[req[r].locationIndex]
        /\ req[r].pc = "done" =>
              req[r].transportConfig =
                  EffectiveTransport(req[r].matched.Locations[req[r].locationIndex],
                                     req[r].matched.Transport)

\* C8: when no reload is under way, the global accessor and the application
\* handle both give the snapshot published last.
C8_OneCurrentSnapshot ==
    watch.pc \notin {"onChange", "updateConfig"} =>
        /\ ditoConfig = watch.published
        /\ currentConfig = watch.published

-----------------------------------------------------------------------------
(* Properties of the transport cache *)

Served == {c \in Callers : tc[c].pc = "done" /\ tc[c].err = "nil"}

\* C9: with no key deleted, the callers that got a transport got the same
\* instance if and only if their effective settings are the same.
C9_SameConfigSameTransport ==
    ~cleared =>
        \A a, b \in Served :
            /\ tc[a].transport # 0
            /\ (tc[a].transportConfig = tc[b].transportConfig)
                   <=> (tc[a].transport = tc[b].transport)

\* every caller was served, two of them built a transport for the same
\* settings, and a third asked for other settings
C9_Witness ==
    /\ ~cleared
    /\ Served = Callers
    /\ nextTransport = 3
    /\ \E a, b, c \in Callers :
          /\ a # b
          /\ tc[a].transportConfig = tc[b].transportConfig
          /\ tc[a].customTransport # 0
          /\ tc[b].customTransport # 0
          /\ tc[a].customTransport # tc[b].customTransport
          /\ tc[a].transport = tc[b].transport
          /\ tc[c].transportConfig # tc[a].transportConfig
          /\ tc[c].transport # tc[a].transport

-----------------------------------------------------------------------------
(* Properties of WriteHeader on the writer *)

\* the Content-Length set before the first WriteHeader is over the writer's
\* own body limit
DeclaredOverSinkLimit ==
    /\ sink.maxResponseBodySize > 0
    /\ declared # ""
    /\ ParseInt(declared).ok
    /\ ParseInt(declared).val > sink.maxResponseBodySize

\* C10: once a WriteHeader call has returned, the client-facing writer has had
\* exactly one status code written and it is the first one offered.
C10_OneStatusTheFirstOffered ==
    returned > 0 =>
        /\ Len(tgt.statusWrites) = 1
        /\ tgt.statusWrites[1] \in firstOffers

\* C10 amended: once a WriteHeader call has returned, the client-facing writer
\* has had exactly one status code written; it is the first one offered, or 413
\* when the headers declare a Content-Length over the writer's own body limit.
C10_OneStatusFirstOr413 ==
    returned > 0 =>
        /\ Len(tgt.statusWrites) = 1
        /\ IF DeclaredOverSinkLimit
           THEN tgt.statusWrites[1] = StatusRequestEntityTooLarge
           ELSE tgt.statusWrites[1] \in firstOffers

\* two goroutines offered different codes before either call returned, the
\* headers declared a Content-Length over the writer's limit, and both calls
\* have returned
C10_Witness ==
    /\ returned >= 2
    /\ firstOffers = Statuses
    /\ DeclaredOverSinkLimit
    /\ \A g \in Goroutines : wh[g].pc = "idle"
    /\ tgt.statusWrites = <<StatusRequestEntityTooLarge>>

\* the response was refused for its size before any status had gone out: by the
\* interceptor, or by the writer for a Content-Length over its own limit
RefusedForSize ==
    rejected \/ (sink.responseLimitHit /\ sink.StatusCode = StatusRequestEntityTooLarge)

\* C11 as stated: no body byte goes out before a status and the headers, and a
\* Write that no WriteHeader preceded puts status 200 first.
C11_WriteFirstEmits200 ==
    /\ ~tgt.implicitHeader
    /\ tgt.body # "" => tgt.statusWrites # <<>>
    /\ (firstCall = "Write" /\ tgt.statusWrites # <<>>) => tgt.statusWrites[1] = StatusOK

\* C11, amended: no body byte goes out before a status and the headers, the
\* status is always one the interceptor or the writer wrote itself, and a Write
\* that no WriteHeader preceded puts 200 first unless the response is refused
\* for its size, in which case 413 is first.
C11_HeadersBeforeBody ==
    /\ ~tgt.implicitHeader
    /\ tgt.body # "" => tgt.statusWrites # <<>>
    /\ (firstCall = "Write" /\ tgt.statusWrites # <<>>) =>
           tgt.statusWrites[1] =
               IF RefusedForSize THEN StatusRequestEntityTooLarge ELSE StatusOK

C11_Witness ==
    /\ firstCall = "Write"
    /\ tgt.statusWrites = <<StatusOK>>
    /\ tgt.body # ""
    /\ ~RefusedForSize

\* the configured middlewares that have a loaded plugin, in configured order,
\* and the engine behind them
ExpectedOrder ==
    LET Loaded(name) == Applied(name, mw.plugins)
    IN  SelectSeq(mw.middlewares, Loaded) \o <<"engine">>

MissingCritical ==
    {mw.middlewares[i] : i \in 1..Len(mw.middlewares)} \cap
        {n \in criticalMiddlewares : ~Applied(n, mw.plugins)}

\* C12: on a route where no critical middleware is missing, the handlers of a
\* request are invoked in the order of the route's middlewares list, the names
\* without a loaded plugin left out, and the engine comes last, after all of them.
C12_MiddlewareOrder ==
    (phase \in {"chain", "handled"} /\ MissingCritical = {}) =>
        /\ Len(mw.invoked) <= Len(ExpectedOrder)
        /\ mw.invoked = SubSeq(ExpectedOrder, 1, Len(mw.invoked))
        /\ (phase = "handled" /\ mw.invoked # <<>>) =>
               \/ mw.invoked = ExpectedOrder
               \/ mw.invoked[Len(mw.invoked)] # "engine"

C12_Witness ==
    /\ phase = "handled"
    /\ mw.middlewares = <<"m1", "m2", "m3">>
    /\ mw.invoked = <<"m1", "m3", "engine">>

\* C13: a request to a route that lists a critical middleware without a loaded
\* plugin is answered 500 with the 'Service configuration error' JSON naming
\* the missing middlewares, and no middleware or engine is invoked.
C13_MissingCriticalIs500 ==
    (phase = "handled" /\ MissingCritical # {}) =>
        /\ mw.invoked = <<>>
        /\ {mw.handler.missingCritical[i] : i \in 1..Len(mw.handler.missingCritical)}
               = MissingCritical
        /\ tgt.statusWrites = <<StatusInternalServerError>>
        /\ tgt.body = BlockingErrorBody(mw.handler.missingCritical)

\* the part of C13 that holds: the route is blocked
C13_MissingCriticalBlocks ==
    (phase \in {"chain", "handled"} /\ MissingCritical # {}) => mw.invoked = <<>>

LoadedPlugins == {boot.plugins[i] : i \in 1..Len(boot.plugins)}

\* C14: every plugin loaded comes from a start in which the SHA-256 of the
\* public key file equals public_key_hash, and its signature is an Ed25519
\* signature by that key over the SHA-256 of the very binary loaded; where the
\* key file's hash differs, startup exits with nothing loaded.
C14_LoadedOnlyIfVerified ==
    /\ \A p \in LoadedPlugins :
           /\ HexDigest(boot.keyFile) = boot.expectedHash
           /\ p.signature = Sign(boot.keyFile, p.binary)
    /\ (boot.pc # "main" /\ HexDigest(boot.keyFile) # boot.expectedHash) =>
           /\ boot.pc \in {"validate", "exit"}
           /\ boot.plugins = <<>>

C14_Witness ==
    /\ boot.pc = "serving"
    /\ Len(boot.plugins) = 1
    /\ Len(boot.dir) = 2
    /\ boot.dir[1].signature.present

\* C15: the server accepts connections only if every plugin named in the
\* route's middlewares list was loaded; otherwise startup has exited.
C15_UnavailablePluginAbortsStartup ==
    boot.pc = "serving" =>
        \A i \in 1..Len(boot.middlewares) :
            \E p \in LoadedPlugins : p.name = boot.middlewares[i]

\* C16: a round trip that fails before any status went out and before the
\* interceptor has exceeded its limit is answered 504 for a timeout, 408 for a
\* cancelled context and 502 for any other error.
C16_UpstreamErrorStatus ==
    (upstreamErr.error # "" /\ ~upstreamErr.limitExceeded
        /\ upstreamErr.before.statusWrites = <<>>) =>
        tgt.statusWrites = <<ErrorStatus(upstreamErr.error)>>

\* the interceptor had answered 413 when the round trip failed
Committed413Before ==
    /\ upstreamErr.error # ""
    /\ upstreamErr.limitExceeded
    /\ upstreamErr.before.statusWrites = <<StatusRequestEntityTooLarge>>

\* C17: where the interceptor had committed a 413 before the round trip failed,
\* the status, the headers and the body the client got are, from then on, those
\* it had before the error.
C17_NothingAfter413 ==
    Committed413Before =>
        /\ tgt.statusWrites = upstreamErr.before.statusWrites
        /\ tgt.headers = upstreamErr.before.headers
        /\ tgt.body = upstreamErr.before.body
        /\ tgt.writes = upstreamErr.before.writes

C17_Witness ==
    /\ Committed413Before
    /\ phase = "done"
    /\ tgt.body = TheLimitErrorBody

\* the instances deleted under caller c's key before its GetTransport began
RemovedBefore(c) == {p[2] : p \in {q \in began[c] : q[1] = tc[c].key}}

\* C19: a GetTransport that begins after InvalidateTransport or Clear deleted
\* the entry of its key returns a transport that is none of the instances
\* deleted before it began.
C19_RebuiltAfterInvalidate ==
    \A c \in Callers :
        (tc[c].pc = "done" /\ tc[c].err = "nil") => tc[c].transport \notin RemovedBefore(c)

C19_Witness ==
    \E c \in Callers :
        /\ tc[c].pc = "done"
        /\ tc[c].err = "nil"
        /\ RemovedBefore(c) # {}
        /\ tc[c].transport = nextTransport

\* the cache entries stored by requests dispatched under v1
BuiltUnderV1 == {k \in DOMAIN transports : builtUnder[k] = SnapshotV1}

\* C18: whenever a request dispatched under v2 consults the transport cache, the
\* cache holds no entry that a request dispatched under v1 stored.
C18_V1EntriesGoneForV2 ==
    [][\A r \in Requests :
          (RoundTripLoad(r) /\ req[r].matched = SnapshotV2) => BuiltUnderV1 = {}]_vars

\* the watcher has tried to load the file as it is now, and LoadConfiguration
\* returned an error
ReloadFailed ==
    /\ watch.pc = "tick"
    /\ ~file.valid
    /\ watch.fileModTime = file.modTime
    /\ watch.lastModified < file.modTime

Snapshots == {SnapshotV1, SnapshotV2}

\* C20: the snapshot the handlers read is always one a successful load
\* returned, so is every snapshot a request was dispatched under, and after a
\* failed reload the current snapshot is the one published last.
C20_FailedReloadKeepsSnapshot ==
    /\ ditoConfig \in Snapshots
    /\ currentConfig \in Snapshots
    /\ \A r \in Requests : req[r].pc # "idle" => req[r].matched \in Snapshots
    /\ ReloadFailed => ditoConfig = watch.published

C20_Witness ==
    /\ ReloadFailed
    /\ file.content = BrokenConfig
    /\ ditoConfig = SnapshotV2
    /\ \E r \in Requests : req[r].pc = "done" /\ req[r].matched = SnapshotV2

\* C21: every Write into a LimitedBuffer of capacity C accepts
\* min(len(p), C - Len() before the call) bytes; after it Len() <= C and
\* TotalSize() is what it was plus len(p).
C21_WriteAccounting ==
    lbRet.op = "Write" =>
        /\ lbRet.n = Min(Len(lbRet.p), lb.maxSize - lbRet.before.written)
        /\ lb.written = lbRet.before.written + lbRet.n
        /\ lb.written <= lb.maxSize
        /\ lb.totalSize = lbRet.before.totalSize + Len(lbRet.p)

C21_Witness ==
    /\ lbRet.op = "Write"
    /\ lbRet.before.written > 0
    /\ lbRet.n > 0
    /\ lbRet.n < Len(lbRet.p)

\* C22: concurrent calls on a LimitedBuffer give the results of some serial
\* order of the same calls. In every serial order of Write, Read and String
\* calls each byte a Write accepted is returned by at most one Read, so the
\* Read calls together return no more bytes than the Write calls accepted.
C22_ReadsAreSerial == lbHist.delivered <= lbHist.accepted

\* Len() <= Cap() and Available() >= 0 in every state
C22_LengthWithinCapacity == lb.written <= lb.maxSize /\ lb.maxSize - lb.written >= 0

\* C23: after clone := lb.Clone(), whatever was called on lb before, the same
\* Write calls on both leave clone.Len() = lb.Len() and
\* clone.IsOverflow() = lb.IsOverflow().
C23_CloneFollowsOriginal ==
    lbRet.cloned => (clone.written = lb.written /\ clone.overflow = lb.overflow)


\* the excluded headers of the location that the request still carries
ExcludedPresent ==
    {i \in 1..Len(ah.location.ExcludedHeaders) :
        CanonicalMIMEHeaderKey(ah.location.ExcludedHeaders[i]) \in DOMAIN ah.req.Header}

\* C24: for every request and route, rewriting the request headers twice
\* gives the headers that rewriting them once gives, and no excluded header
\* is present after a rewriting.
C24_RewritingIsIdempotent ==
    /\ ah.pc = "twice" => ah.req.Header = ah.once.Header
    /\ ah.pc # "start" => ExcludedPresent = {}


\* C25: the response modifier adds X-Content-Type-Options, X-Frame-Options,
\* Referrer-Policy and Strict-Transport-Security only where the upstream sent
\* none: a value the upstream sent for one of them is the value the modified
\* response carries.
C25_UpstreamSecurityHeadersKept ==
    resp.pc = "modified" =>
        \A n \in DOMAIN SecurityHeaders :
            n \in DOMAIN resp.upstream => resp.Header[n] = resp.upstream[n]

\* a security header the upstream did not send has the gateway's value, and
\* the upstream's Strict-Transport-Security is kept
C25_DefaultsWhenAbsent ==
    resp.pc = "modified" =>
        /\ \A n \in DOMAIN SecurityHeaders \ DOMAIN resp.upstream :
              resp.Header[n] = <<SecurityHeaders[n]>>
        /\ "Strict-Transport-Security" \in DOMAIN resp.upstream =>
              resp.Header["Strict-Transport-Security"] = resp.upstream["Strict-Transport-Security"]


\* the file sets no global limit, or 0, and the route sets none, or 0
NoLimitConfigured ==
    /\ lim.pc = "serving"
    /\ lim.parsed.ResponseLimits.MaxResponseBodySize = 0
    /\ lim.parsed.Locations[1].MaxResponseBodySize = 0

C28_FirstMatchingRoute ==
    \A r \in Requests :
        /\ req[r].pc \in {"handler", "proxy", "done"} =>
              /\ MatchString(req[r].location.Path, req[r].path)
              /\ \E i \in 1..Len(req[r].matched.Locations) :
                    /\ req[r].matched.Locations[i] = req[r].location
                    /\ \A j \in 1..(i - 1) :
                          ~MatchString(req[r].matched.Locations[j].Path, req[r].path)
        /\ req[r].pc = "notFound" =>
              \A i \in 1..Len(req[r].matched.Locations) :
                  ~MatchString(req[r].matched.Locations[i].Path, req[r].path)


\* the index DynamicProxyHandler hands on is that of the first matching
\* location of the table it iterated, and there is none exactly when no
\* location of that table matches
C28_IndexIsFirstMatch ==
    \A r \in Requests :
        req[r].pc # "idle" =>
            LET table == req[r].matched.Locations
                i == req[r].locationIndex
            IN  /\ i = 0 <=> \A j \in 1..Len(table) : ~MatchString(table[j].Path, req[r].path)
                /\ i # 0 =>
                      /\ MatchString(table[i].Path, req[r].path)
                      /\ \A j \in 1..(i - 1) : ~MatchString(table[j].Path, req[r].path)


\* the request path without the prefix the anchored pattern matched
Remainder == TrimPrefix(fwd.originalPath, Literal(fwd.location.Path))

\* C29: with replace_path the path forwarded is the target's path; without
\* it, it is the target's path, one separator, and the request path without
\* the prefix the route matched.
C29_ForwardedPath ==
    fwd.pc = "directed" =>
        IF fwd.location.ReplacePath
        THEN fwd.Path = fwd.targetPath
        ELSE Anchored(fwd.location.Path) =>
                fwd.Path = TrimSuffix(fwd.targetPath, "/") \o "/" \o TrimPrefix(Remainder, "/")

\* the handler wrote through the interceptor, began with WriteHeader, and the
\* response was not rejected for its size
NotRejected ==
    /\ phase \in {"open", "done"}
    /\ firstCall = "WriteHeader"
    /\ ~rli.limitExceeded

\* C30: on the interceptor, for a response that is not rejected, the status
\* the client receives is the status of the first WriteHeader call; later
\* WriteHeader calls do not change it.
C30_FirstStatusWins ==
    (NotRejected /\ tgt.statusWrites # <<>>) => tgt.statusWrites[1] = firstStatus


\* C31: on a capped route, when the handler has called WriteHeader once,
\* written no body and returned, and the response was not rejected, the
\* client has received the status the handler passed, after the final Flush
\* of handleLocationMatch.
C31_BodilessStatusReachesClient ==
    (phase = "done" /\ seen = {"WriteHeader"} /\ calls = 1 /\ ~rli.limitExceeded)
        => tgt.statusWrites = <<firstStatus>>


\* C32: an error response of the gateway itself on a capped route reaches
\* the client with its own status and its JSON body whatever the cap of the
\* route: when the round trip fails before anything went out, the client
\* has, after the final Flush, the 502, 504 or 408 and the error JSON.
C32_GatewayErrorPassesCap ==
    (phase = "done" /\ upstreamErr.error # "" /\ ~upstreamErr.limitExceeded
        /\ upstreamErr.before.statusWrites = <<>>) =>
        /\ tgt.statusWrites = <<ErrorStatus(upstreamErr.error)>>
        /\ tgt.body = GatewayErrorBody(ErrorStatus(upstreamErr.error),
                                       ErrorMessage(upstreamErr.error), upstreamErr.error)

\* C33: once the watcher has caught up with the last edit of the file (it is
\* back at its tick, has recorded the file's modification time, and the file
\* holds a valid configuration), the snapshot that serves requests is the
\* file's contents.
C33_SnapshotFollowsFile ==
    (watch.pc = "tick" /\ watch.lastModified = file.modTime /\ file.valid)
        => ditoConfig = file.content

\* C34: a request that holds a route index and is about to use it (in
\* handleLocationMatch or in ServeProxy) indexes the table it was matched
\* against, so the index is within the bounds of the table it is applied to.
C34_IndexWithinItsTable ==
    \A r \in Requests :
        req[r].pc \in {"matched", "handler"} =>
            /\ ditoConfig = req[r].matched
            /\ req[r].locationIndex \in 1..Len(ditoConfig.Locations)

\* C39: after any sequence of LimitedBuffer operations, Len() is the number of
\* bytes Bytes() returns, and Available() is Cap() - Len().
C39_LengthIsContent ==
    lbRet.op # "none" =>
        /\ lb.written = Len(Unread(lb.buffer))
        /\ lb.maxSize - lb.written = lb.maxSize - Len(Unread(lb.buffer))

\* C37: on a ResponseWriter used by itself with a positive body limit, once a
\* declared Content-Length above the limit has produced the 413, a Write(b)
\* forwards none of b, returns (len(b), nil), and the client has received the
\* error text at most once.
C37_WritesAfterRejection ==
    [][\A b \in Chunks :
        (/\ phase = "sink"
         /\ sink.responseLimitHit
         /\ sink.StatusCode = StatusRequestEntityTooLarge
         /\ BodyWrite(b)) =>
            /\ tgt'.body \in {"", SinkErrorMsg(sink.maxResponseBodySize)}
            /\ lastRet' = [n |-> Len(b), err |-> "nil"]]_vars

C36_UnbufferedIsStreaming ==
    (phase = "sink" /\ sink.bufferCap > 0 /\ ~sink.shouldBuffer /\ tgt.body # "")
        => sink.streamingMode

\* C38: at every point of a response the buffered body is a prefix of the
\* bytes forwarded to the client, also when Write is called by several
\* goroutines.
C38_BufferIsPrefix ==
    phase = "sink" => StartsWith(tgt.body, sink.BodyBuffer)

====
